---- MODULE Spec2Model ----
(***************************************************************************)
(* Host process of the multi-window application: the Window Manager        *)
(* (registry of child windows), the message handlers of the Host and the   *)
(* window events the platform delivers to them.                            *)
(***************************************************************************)
EXTENDS Integers, Sequences, FiniteSets, TLC

\* Bounds of the model: the createChildWindow calls of one run (each draws
\* an id), in general and in the end-to-end flow.
MaxCalls == 2
MaxFlowCalls == 5

\* The retry() calls of one run of a view that are not refused
MaxRetryCalls == 4
MaxValidationRetries == 1
MaxActions == 2
MaxBridgeCalls == 1
MaxIdCalls == 2
MaxShutdownCalls == 2
MaxLoggerCalls == 3
MaxShowCalls == 1
MaxShowAge == 15000
MaxFetchCalls == 2
MaxFetchAge == 15000

---------------------------------------------------------------------------
(* JavaScript values that reach the Host: a type tag, a string and a number *)

Undefined == [t |-> "undefined", s |-> "", n |-> 0]
Null == [t |-> "null", s |-> "", n |-> 0]
Str(x) == [t |-> "string", s |-> x, n |-> 0]
Num(k) == [t |-> "number", s |-> "", n |-> k]
NaN == [t |-> "number", s |-> "NaN", n |-> 0]
Infinity == [t |-> "number", s |-> "Infinity", n |-> 0]
NegInfinity == [t |-> "number", s |-> "-Infinity", n |-> 0]

\* !v
Falsy(v) ==
  \/ v.t \in {"undefined", "null"}
  \/ v.t = "string" /\ v.s = ""
  \/ v.t = "number" /\ (v.s = "NaN" \/ (v.s = "" /\ v.n = 0))

\* typeof v
typeof(v) == IF v.t = "null" THEN "object" ELSE v.t

\* isNaN(v), v a number
isNaN(v) == v.s = "NaN"

\* v <= 0, v a number that is not NaN
LeqZero(v) == v.s = "-Infinity" \/ (v.s = "" /\ v.n <= 0)

\* `${v}`
TemplateString(v) ==
  CASE v.t = "string" -> v.s
    [] v.t = "number" -> IF v.s = "" THEN ToString(v.n) ELSE v.s
    [] OTHER -> v.t

(* A dimensions argument: null, an object with (possibly missing) width and *)
(* height, or a function (an inherited property of an object literal).      *)
NullDims == [t |-> "null", width |-> Undefined, height |-> Undefined]
UndefinedDims == [t |-> "undefined", width |-> Undefined, height |-> Undefined]
FunctionDims == [t |-> "function", width |-> Undefined, height |-> Undefined]
Dims(w, h) == [t |-> "object", width |-> w, height |-> h]

\* JSON.stringify of one property: undefined is left out, NaN and the
\* infinities are written null.
JSONProperty(name, v) ==
  CASE v.t = "undefined" -> ""
    [] v.t = "string" -> "\"" \o name \o "\":\"" \o v.s \o "\""
    [] v.t = "number" ->
         "\"" \o name \o "\":" \o (IF v.s = "" THEN ToString(v.n) ELSE "null")
    [] OTHER -> "\"" \o name \o "\":null"

\* JSON.stringify(dimensions), as the error message embeds it
JSONstringify(d) ==
  CASE d.t = "null" -> "null"
    [] d.t \in {"undefined", "function"} -> "undefined"
    [] OTHER ->
         LET w == JSONProperty("width", d.width)
             h == JSONProperty("height", d.height)
         IN "{" \o w \o (IF w # "" /\ h # "" THEN "," ELSE "") \o h \o "}"

\* A thrown value: an Error with a message, or something that is no Error.
Error(m) == [instanceofError |-> TRUE, message |-> m]
NonError == [instanceofError |-> FALSE, message |-> ""]
NoError == [instanceofError |-> FALSE, message |-> "(none)"]

---------------------------------------------------------------------------
VARIABLES
  app,            \* "starting" until app.whenReady() has run, then "ready"
  mainWindow,     \* the primary window: "none", "open" or "closed"
  wins,           \* every child BrowserWindow constructed, by handle 1..Len
  childWindows,   \* WindowManager.childWindows, in insertion order
  windowCounter,  \* WindowManager.windowCounter
  last,           \* what the last call or event did and returned
  issued,         \* the window ids createChildWindow has generated, in order
  showTimeout,    \* per child window: its watchdog, its listener, its show() calls
  child,          \* the Child View: what its hook returned, its state, its output
  wire,           \* the messages the two bridges have sent to the Host
  logger,         \* Logger.instance of one renderer process, and the calls made
  fetchTimeout,   \* per invocation of fetchDogImage: its request and its timer
  boundary,       \* the Error Boundary: its state, its props and what it rendered
  flow,           \* stage of the flow open child1, child2, child3, terminate, open
  errorState,     \* useErrorHandler: the Error State
  hook,           \* useErrorHandler: maxRetries, the state the callbacks of the
                  \* last render captured, the retries in flight
  lastCall,       \* what the last call of a view's hook did
  dogApi,         \* useDogApi: data, loading, error, errorDetails and its requests
  mainApp,        \* MainAppContent: isLoading, error, retryCount and its actions
  ipc             \* the bridge: its calls under way and the messages it sent

\* The variables of the views
\* The primary view with its hooks and its bridge
mainVars == <<errorState, hook, lastCall, dogApi, mainApp, ipc>>

\* The child view, the bridges' messages, the logger and the fetch timers
childVars == <<child, wire, logger, fetchTimeout, boundary>>

rendererVars == <<mainVars, childVars>>

\* What is recorded about the child windows over the manager's lifetime
windowVars == <<issued, showTimeout>>

vars ==
  <<app, mainWindow, wins, childWindows, windowCounter, last, flow, windowVars,
    rendererVars>>

Handles == 1..Len(wins)

\* The handles a registry tracks, in its iteration order
Tracked(cw) == {cw[i].window : i \in 1..Len(cw)}

\* Map.delete(windowId)
MapDelete(cw, windowId) == SelectSeq(cw, LAMBDA e : e.windowId # windowId)

\* A destroyed window that the registry no longer tracks: nothing in the
\* program refers to it any more, and only that it is gone is kept.
Gone ==
  [ windowType |-> "", windowId |-> "", width |-> Undefined,
    height |-> Undefined, query |-> "", fallback |-> FALSE,
    state |-> "destroyed" ]

Collect(cw, w) ==
  [h \in DOMAIN w |->
     IF w[h].state = "destroyed" /\ h \notin Tracked(cw) THEN Gone ELSE w[h]]

\* BrowserWindow.isDestroyed(): TRUE, FALSE, or it throws
IsDestroyedThrows(w, h) == w[h].state = "faulty"
IsDestroyed(w, h) == w[h].state = "destroyed"

---------------------------------------------------------------------------
(* WindowManager                                                           *)

\* Variant of findWindowByType that never finds a window
FindNone(cw, w, type) == [threw |-> FALSE, window |-> 0]

\* Variant of findWindowByType that takes the first tracked window tagged
\* with the type, destroyed or not
FindAnyByType(cw, w, type) ==
  LET tagged == SelectSeq(cw, LAMBDA e : w[e.window].windowType = type)
  IN [threw |-> FALSE, window |-> IF tagged = <<>> THEN 0 ELSE tagged[1].window]

\* findWindowByType: the first tracked window, in iteration order, that is
\* not destroyed and is tagged with the type; a liveness check that throws
\* ends the search with that exception.
RECURSIVE FindFrom(_, _, _, _)
FindFrom(cw, w, type, i) ==
  IF i > Len(cw) THEN [threw |-> FALSE, window |-> 0]
  ELSE IF IsDestroyedThrows(w, cw[i].window) THEN [threw |-> TRUE, window |-> 0]
  ELSE IF ~IsDestroyed(w, cw[i].window) /\ w[cw[i].window].windowType = type
       THEN [threw |-> FALSE, window |-> cw[i].window]
  ELSE FindFrom(cw, w, type, i + 1)

findWindowByType(cw, w, type) == FindFrom(cw, w, type, 1)

\* The checks createChildWindow makes on its arguments, in order: the error
\* it throws, or NoError.
ValidateArguments(type, dimensions) ==
  IF Falsy(type) \/ typeof(type) # "string"
  THEN Error("Invalid window type: " \o TemplateString(type))
  ELSE IF \/ dimensions.t \in {"null", "undefined"}
          \/ typeof(dimensions.width) # "number"
          \/ typeof(dimensions.height) # "number"
          \/ isNaN(dimensions.width)
          \/ isNaN(dimensions.height)
  THEN Error("Invalid dimensions: " \o JSONstringify(dimensions))
  ELSE IF LeqZero(dimensions.width) \/ LeqZero(dimensions.height)
  THEN Error("Invalid dimensions: width and height must be positive numbers")
  ELSE NoError

\* new BrowserWindow({width, height, ...}) followed by the tagging of the
\* handle and loadChildComponent(childWindow, type). fallback records that
\* the window was constructed because focusing the existing one failed.
NewWindow(type, dimensions, windowId, fallback) ==
  [ windowType |-> type.s,
    windowId   |-> windowId,
    width      |-> dimensions.width,
    height     |-> dimensions.height,
    query      |-> type.s,
    fallback   |-> fallback,
    state      |-> "live" ]

\* Variant of PreIncrement that leaves the counter as it is
KeepCounter(counter) == counter

\* ++this.windowCounter
PreIncrement(counter) == counter + 1

\* `${type}-${++this.windowCounter}`, given the incremented counter
WindowId(type, counter) == TemplateString(type) \o "-" \o ToString(counter)

\* Variant of createChildWindow in which a focus() that throws ends the call
createChildWindowFocusFatal(type, dimensions, focusThrows, ctor) ==
  LET counter == PreIncrement(windowCounter)
      Threw(e, f) == [ threw |-> TRUE, error |-> e, window |-> 0, focused |-> f,
                       constructed |-> FALSE, windowCounter |-> counter,
                       childWindows |-> childWindows, wins |-> wins ]
      invalid == ValidateArguments(type, dimensions)
      existing == findWindowByType(childWindows, wins, type.s)
      found == existing.window # 0 /\ ~IsDestroyed(wins, existing.window)
  IN IF invalid # NoError THEN Threw(invalid, 0)
     ELSE IF existing.threw THEN Threw(Error("isDestroyed failed"), 0)
     ELSE IF existing.window # 0 /\ IsDestroyedThrows(wins, existing.window)
     THEN Threw(Error("isDestroyed failed"), 0)
     ELSE IF found /\ focusThrows THEN Threw(Error("focus failed"), existing.window)
     ELSE IF found
     THEN [ threw |-> FALSE, error |-> NoError, window |-> existing.window,
            focused |-> existing.window, constructed |-> FALSE,
            windowCounter |-> counter,
            childWindows |-> childWindows, wins |-> wins ]
     ELSE IF ctor = "Error" THEN Threw(Error("Window creation failed"), 0)
     ELSE IF ctor = "other" THEN Threw(NonError, 0)
     ELSE [ threw |-> FALSE, error |-> NoError, window |-> Len(wins) + 1,
            focused |-> 0, constructed |-> TRUE, windowCounter |-> counter,
            childWindows |->
              Append(childWindows,
                     [windowId |-> WindowId(type, counter), window |-> Len(wins) + 1]),
            wins |->
              Append(wins, NewWindow(type, dimensions, WindowId(type, counter), FALSE)) ]

\* createChildWindow(type, dimensions). focusThrows: focus() of an existing
\* window throws; ctor: what the BrowserWindow constructor does ("ok",
\* "Error": it throws an Error, "other": it throws something else).
\* The result names the exception or the handle returned, the window
\* focus() was called on, and the new values of the manager's fields and
\* of the platform's windows.
createChildWindow(type, dimensions, focusThrows, ctor) ==
  LET counter == PreIncrement(windowCounter)
      windowId == WindowId(type, counter)
      Threw(e, f) == [ threw |-> TRUE, error |-> e, window |-> 0, focused |-> f,
                       constructed |-> FALSE, windowCounter |-> counter,
                       childWindows |-> childWindows, wins |-> wins ]
      invalid == ValidateArguments(type, dimensions)
      existing == findWindowByType(childWindows, wins, type.s)
      \* existingWindow && !existingWindow.isDestroyed()
      found == existing.window # 0 /\ ~IsDestroyed(wins, existing.window)
      focused == IF found THEN existing.window ELSE 0
  IN IF invalid # NoError THEN Threw(invalid, 0)
     ELSE IF existing.threw THEN Threw(Error("isDestroyed failed"), 0)
     ELSE IF existing.window # 0 /\ IsDestroyedThrows(wins, existing.window)
     THEN Threw(Error("isDestroyed failed"), 0)
     ELSE IF found /\ ~focusThrows
     THEN [ threw |-> FALSE, error |-> NoError, window |-> existing.window,
            focused |-> focused, constructed |-> FALSE,
            windowCounter |-> counter,
            childWindows |-> childWindows, wins |-> wins ]
     ELSE IF ctor = "Error"
     THEN Threw(Error("Window creation failed"), focused)
     ELSE IF ctor = "other" THEN Threw(NonError, focused)
     ELSE [ threw |-> FALSE, error |-> NoError, window |-> Len(wins) + 1,
            focused |-> focused, constructed |-> TRUE,
            windowCounter |-> counter,
            childWindows |->
              Append(childWindows,
                     [windowId |-> windowId, window |-> Len(wins) + 1]),
            wins |->
              Append(wins, NewWindow(type, dimensions, windowId, found)) ]

\* The delay of the watchdog that createChildWindow starts
ShowTimeoutMs == 10000

\* What createChildWindow sets up for the window it constructed: the timer
\* is "armed", "fired" or "cleared"; listening: the once('ready-to-show')
\* listener is still registered; shown: the show() calls that returned.
ShowArmed ==
  [age |-> 0, timer |-> "armed", listening |-> TRUE, shown |-> <<>>,
   warned |-> FALSE, threw |-> FALSE]

\* childWindow.show(), called by the watchdog or the listener
ShowCalled(sw, by, showOutcome) ==
  IF showOutcome = "throws" THEN [sw EXCEPT !.threw = TRUE]
  ELSE [sw EXCEPT !.shown = Append(@, [by |-> by, at |-> sw.age])]

\* The callback of setTimeout(..., 10000)
ShowTimeoutCallback(sw, destroyed, showOutcome) ==
  LET warned == [sw EXCEPT !.timer = "fired", !.warned = TRUE]
  IN IF ~destroyed THEN ShowCalled(warned, "watchdog", showOutcome) ELSE warned

\* Variant of ReadyToShowListener that leaves the watchdog armed
ReadyToShowListenerKeepingTimer(sw, destroyed, showOutcome) ==
  LET heard == [sw EXCEPT !.listening = FALSE]
  IN IF ~destroyed THEN ShowCalled(heard, "ready-to-show", showOutcome) ELSE heard

\* The once('ready-to-show') listener: clearTimeout(showTimeout), then show()
ReadyToShowListener(sw, destroyed, showOutcome) ==
  LET heard == [sw EXCEPT !.listening = FALSE,
                          !.timer = IF @ = "armed" THEN "cleared" ELSE @]
  IN IF ~destroyed THEN ShowCalled(heard, "ready-to-show", showOutcome) ELSE heard

\* Variant of the 'closed' handler that empties the registry
OnClosedClearing(cw, w, h) == <<>>

\* The 'closed' handler of a child window: childWindows.delete(windowId)
OnClosed(cw, w, h) == MapDelete(cw, w[h].windowId)

\* The 'closed' handlers of the windows in the set gone run on registry cw
RECURSIVE ClosedAll(_, _, _)
ClosedAll(cw, w, gone) ==
  IF gone = {} THEN cw
  ELSE LET h == CHOOSE x \in gone : TRUE
       IN ClosedAll(OnClosed(cw, w, h), w, gone \ {h})

\* The windows of w in the set gone are destroyed and their 'closed'
\* handlers run on registry cw
DestroyAll(st, gone) ==
  [st EXCEPT
     !.wins = [x \in DOMAIN st.wins |->
                 IF x \in gone THEN [st.wins[x] EXCEPT !.state = "destroyed"]
                 ELSE st.wins[x]],
     !.childWindows = ClosedAll(st.childWindows, st.wins, gone)]

\* Variant of SweepEntry that counts a close() that throws
SweepEntryCountingThrows(st, h, outcome, kill) ==
  IF st.wins[h].state # "live" THEN st
  ELSE IF outcome = "throws"
  THEN [st EXCEPT !.called = @ \cup {h}, !.closedCount = @ + 1]
  ELSE DestroyAll([st EXCEPT !.called = @ \cup {h}, !.closedCount = @ + 1],
                  (IF outcome = "closed" THEN {h} ELSE {})
                    \cup (IF kill[1] = h THEN {kill[2]} ELSE {}))

\* One entry of the sweep of closeAllChildWindows, on window h.
\* outcome is what close() does on h: "throws", "pending" (the window
\* closes later) or "closed" (its 'closed' event fires before close()
\* returns); kill = <<a, b>> says that the closing of window a destroys
\* window b too (<<0, 0>>: no such pair).
SweepEntry(st, h, outcome, kill) ==
  IF IsDestroyedThrows(st.wins, h) THEN st
  ELSE IF IsDestroyed(st.wins, h) THEN st
  ELSE IF outcome = "throws" THEN [st EXCEPT !.called = @ \cup {h}]
  ELSE DestroyAll([st EXCEPT !.called = @ \cup {h}, !.closedCount = @ + 1],
                  (IF outcome = "closed" THEN {h} ELSE {})
                    \cup (IF kill[1] = h THEN {kill[2]} ELSE {}))

RECURSIVE Sweep(_, _, _, _, _)
Sweep(snapshot, i, st, closeOutcome, kill) ==
  IF i > Len(snapshot) THEN st
  ELSE LET h == snapshot[i].window
           outcome == IF h \in DOMAIN closeOutcome THEN closeOutcome[h] ELSE "pending"
           visiting == [st EXCEPT !.visited = Append(@, snapshot[i].windowId)]
       IN Sweep(snapshot, i + 1, SweepEntry(visiting, h, outcome, kill),
                closeOutcome, kill)

\* Variant of MapClear that leaves the registry as it is
MapKeep(cw) == cw

\* this.childWindows.clear()
MapClear(cw) == <<>>

\* Variant of closeAllChildWindows in which a close() that throws ends the
\* call before the registry is cleared
closeAllChildWindowsAborting(closeOutcome, kill) ==
  LET st == Sweep(childWindows, 1,
                  [closedCount |-> 0, called |-> {}, visited |-> <<>>,
                   childWindows |-> childWindows, wins |-> wins],
                  closeOutcome, kill)
  IN IF \E h \in st.called : closeOutcome[h] = "throws" THEN st
     ELSE [st EXCEPT !.childWindows = MapClear(st.childWindows)]

\* closeAllChildWindows(): the sweep over the snapshot of the entries, then
\* the registry is cleared
closeAllChildWindows(closeOutcome, kill) ==
  LET st == Sweep(childWindows, 1,
                  [closedCount |-> 0, called |-> {}, visited |-> <<>>,
                   childWindows |-> childWindows, wins |-> wins],
                  closeOutcome, kill)
  IN [st EXCEPT !.childWindows = MapClear(st.childWindows)]

\* Variant of CountEntry that counts a window whose liveness check throws
CountEntryCountingFaulty(acc, e, w) ==
  IF w[e.window].state # "destroyed"
  THEN [acc EXCEPT !.activeCount = @ + 1]
  ELSE [acc EXCEPT !.destroyedWindows = Append(@, e.windowId)]

\* One entry of the walk of getActiveWindowCount: a window that is not
\* destroyed is counted, one that is destroyed, or whose check throws, is
\* noted for removal.
CountEntry(acc, e, w) ==
  IF IsDestroyedThrows(w, e.window)
  THEN [acc EXCEPT !.destroyedWindows = Append(@, e.windowId)]
  ELSE IF ~IsDestroyed(w, e.window)
  THEN [acc EXCEPT !.activeCount = @ + 1]
  ELSE [acc EXCEPT !.destroyedWindows = Append(@, e.windowId)]

RECURSIVE CountFrom(_, _, _, _)
CountFrom(cw, w, i, acc) ==
  IF i > Len(cw) THEN acc
  ELSE CountFrom(cw, w, i + 1, CountEntry(acc, cw[i], w))

RECURSIVE DeleteAll(_, _, _)
DeleteAll(cw, ids, i) ==
  IF i > Len(ids) THEN cw ELSE DeleteAll(MapDelete(cw, ids[i]), ids, i + 1)

\* getActiveWindowCount() on registry cw: the count and the registry left
getActiveWindowCount(cw, w) ==
  LET acc == CountFrom(cw, w, 1, [activeCount |-> 0, destroyedWindows |-> <<>>])
  IN [count |-> acc.activeCount,
      childWindows |-> DeleteAll(cw, acc.destroyedWindows, 1)]

---------------------------------------------------------------------------
(* Host bootstrap and message router                                       *)

Kinds == {"child1", "child2", "child3"}

\* Variant of CHILD_WINDOW_CONFIGS with the presets of child2 and child3
\* exchanged
ExchangedConfigs ==
  [k \in Kinds |->
     CASE k = "child1" -> Dims(Num(300), Num(300))
       [] k = "child2" -> Dims(Num(250), Num(200))
       [] k = "child3" -> Dims(Num(500), Num(300))]

\* CHILD_WINDOW_CONFIGS, the preset of each kind
CHILD_WINDOW_CONFIGS ==
  [k \in Kinds |->
     CASE k = "child1" -> Dims(Num(300), Num(300))
       [] k = "child2" -> Dims(Num(500), Num(300))
       [] k = "child3" -> Dims(Num(250), Num(200))]

\* Properties every object literal inherits: the methods of Object.prototype,
\* and __proto__, which is Object.prototype itself.
ObjectPrototypeMethods ==
  {"constructor", "toString", "valueOf", "hasOwnProperty", "isPrototypeOf",
   "propertyIsEnumerable", "toLocaleString"}

\* CHILD_WINDOW_CONFIGS[type]: a property read of the object literal
ConfigLookup(name) ==
  IF name \in DOMAIN CHILD_WINDOW_CONFIGS THEN CHILD_WINDOW_CONFIGS[name]
  ELSE IF name \in ObjectPrototypeMethods THEN FunctionDims
  ELSE IF name = "__proto__" THEN Dims(Undefined, Undefined)
  ELSE UndefinedDims

\* Object.keys(CHILD_WINDOW_CONFIGS).join(', ')
ValidTypes == "child1, child2, child3"

\* A request payload: undefined, null, a string, or an object whose type
\* property is the value ty (Undefined: no such property).
UndefinedPayload == [t |-> "undefined", type |-> Undefined]
NullPayload == [t |-> "null", type |-> Undefined]
StringPayload == [t |-> "string", type |-> Undefined]
ObjectPayload(ty) == [t |-> "object", type |-> ty]

\* The envelopes the handlers return
Success == [success |-> TRUE]
Failure(m) == [success |-> FALSE, error |-> m]
NoReply == [none |-> TRUE]

\* Variant of ErrorMessage that reads error.message of whatever was thrown
ErrorMessageUnchecked(e) ==
  IF e.instanceofError THEN Str(e.message) ELSE Undefined

\* catch (error): error instanceof Error ? error.message : 'Unknown error occurred'
ErrorMessage(e) ==
  IF e.instanceofError THEN Str(e.message) ELSE Str("Unknown error occurred")

\* The checks of the open-child-window handler before it calls the manager:
\* the error thrown, or NoError.
ValidateRequest(data) ==
  IF data.t \in {"undefined", "null"} \/ data.t # "object"
  THEN Error("Invalid request data: expected object with type property")
  ELSE IF Falsy(data.type) \/ typeof(data.type) # "string"
  THEN Error("Invalid child window type: type must be a non-empty string")
  ELSE IF ConfigLookup(data.type.s).t = "undefined"
  THEN Error("Invalid child window type: " \o data.type.s
             \o ". Valid types are: " \o ValidTypes)
  ELSE IF app # "ready" THEN Error("Window manager not initialized")
  ELSE NoError

\* The open-child-window handler: the envelope it resolves with, whether it
\* called createChildWindow, and the manager's fields and the platform's
\* windows afterwards.
OpenChildWindowHandler(data, focusThrows, ctor) ==
  LET invalid == ValidateRequest(data)
      r == createChildWindow(data.type, ConfigLookup(data.type.s), focusThrows, ctor)
  IN IF invalid # NoError
     THEN [ reply |-> Failure(ErrorMessage(invalid)), calledManager |-> FALSE,
            window |-> 0, focused |-> 0, constructed |-> FALSE,
            windowCounter |-> windowCounter,
            childWindows |-> childWindows, wins |-> wins ]
     ELSE [ reply |-> IF r.threw THEN Failure(ErrorMessage(r.error))
                      ELSE [success |-> TRUE, windowId |-> r.window],
            calledManager |-> TRUE,
            window |-> r.window, focused |-> r.focused,
            constructed |-> r.constructed,
            windowCounter |-> r.windowCounter,
            childWindows |-> r.childWindows, wins |-> r.wins ]

\* The terminate-all-windows handler, given the sweep's result
TerminateAllWindowsHandler(sweep) ==
  IF app # "ready" THEN Failure(Str("Window manager not initialized"))
  ELSE [success |-> TRUE, closedCount |-> sweep.closedCount]

\* The get-active-window-count handler, given the count
GetActiveWindowCountHandler(count) ==
  IF app # "ready" THEN Failure(Str("Window manager not initialized"))
  ELSE [success |-> TRUE, count |-> count]

\* The log handler: level.toUpperCase() throws on a level that is no string
LogHandler(level) ==
  IF typeof(level) # "string" THEN Failure(Str("Failed to process log message"))
  ELSE Success

---------------------------------------------------------------------------
(* Error Boundary (ErrorBoundary)                                          *)

\* What a boundary renders: a React element, the children it wraps, the
\* built-in panel
Element(x) == [t |-> "element", s |-> x, n |-> 0]
Children == Element("children")
BuiltInPanel == Element("Something went wrong")

\* The state the constructor sets
BoundaryConstructed == [hasError |-> FALSE, error |-> "none", errorInfo |-> "none"]

\* getDerivedStateFromError(error), merged into the state
getDerivedStateFromError(state, err) ==
  [state EXCEPT !.hasError = TRUE, !.error = err]

\* componentDidCatch(error, errorInfo): this.setState({ errorInfo })
componentDidCatch(state, err) == [state EXCEPT !.errorInfo = "stack of " \o err]

\* Variant of render() that shows the built-in panel whatever the props
renderBuiltInOnly(state, fallback) ==
  IF state.hasError THEN BuiltInPanel ELSE Children

\* render()
render(state, fallback) ==
  IF state.hasError
  THEN IF ~Falsy(fallback) THEN fallback ELSE BuiltInPanel
  ELSE Children

\* A boundary that has just been mounted with the given fallback prop
BoundaryMounted(fallback, mounts) ==
  [state |-> BoundaryConstructed, fallback |-> fallback,
   output |-> render(BoundaryConstructed, fallback),
   mounts |-> mounts, caught |-> 0, rerendered |-> FALSE]

---------------------------------------------------------------------------
(* Error Classifier and Retry Controller (useErrorHandler)                 *)

\* Values handed to the classifier: a native Error, a string, an object
\* with (possibly absent) code, name and message, an object that refers to
\* itself, and values of the other types.
NativeError(name, message) ==
  [k |-> "Error", code |-> Undefined, name |-> Str(name), message |-> Str(message)]
StringValue(x) ==
  [k |-> "string", code |-> Undefined, name |-> Undefined, message |-> Str(x)]
ObjectValue(code, name, message) ==
  [k |-> "object", code |-> code, name |-> name, message |-> message]
CyclicObject ==
  [k |-> "cyclic", code |-> Undefined, name |-> Undefined, message |-> Undefined]
NullValue ==
  [k |-> "null", code |-> Undefined, name |-> Undefined, message |-> Undefined]
UndefinedValue ==
  [k |-> "undefined", code |-> Undefined, name |-> Undefined, message |-> Undefined]
NumberValue ==
  [k |-> "number", code |-> Undefined, name |-> Undefined, message |-> Undefined]

\* a || b
Or(a, b) == IF Falsy(a) THEN b ELSE a

\* JSON.stringify of an object with the properties code, name, message
\* (in this order); an object that refers to itself makes it throw
JSONstringifyObject(o) ==
  LET parts == SelectSeq(<<JSONProperty("code", o.code),
                           JSONProperty("name", o.name),
                           JSONProperty("message", o.message)>>,
                         LAMBDA x : x # "")
  IN "{" \o (IF Len(parts) = 0 THEN ""
             ELSE IF Len(parts) = 1 THEN parts[1]
             ELSE IF Len(parts) = 2 THEN parts[1] \o "," \o parts[2]
             ELSE parts[1] \o "," \o parts[2] \o "," \o parts[3]) \o "}"

\* An App Error (timestamp and details left out), and the outcome of a
\* classification that throws
AppError(code, message, context) ==
  [code |-> code, message |-> message, context |-> context]
NoAppError == AppError(Undefined, Undefined, Undefined)
ClassifierThrows == [throws |-> "TypeError"]

\* Variant of createAppError that takes null for an object
createAppErrorNullAsObject(error, context) ==
  IF error.k = "Error"
  THEN AppError(Or(error.name, Str("UnknownError")), error.message, context)
  ELSE IF error.k = "string"
  THEN AppError(Str("StringError"), error.message, context)
  ELSE IF error.k \in {"object", "null"}
  THEN AppError(Or(error.code, Or(error.name, Str("ObjectError"))),
                Or(error.message,
                   Str(IF error.k = "null" THEN "null" ELSE JSONstringifyObject(error))),
                context)
  ELSE IF error.k = "cyclic"
  THEN ClassifierThrows
  ELSE AppError(Str("UnknownError"), Str("An unknown error occurred"), context)

\* createAppError(error, context)
createAppError(error, context) ==
  IF error.k = "Error"
  THEN AppError(Or(error.name, Str("UnknownError")), error.message, context)
  ELSE IF error.k = "string"
  THEN AppError(Str("StringError"), error.message, context)
  ELSE IF error.k = "object"
  THEN AppError(Or(error.code, Or(error.name, Str("ObjectError"))),
                Or(error.message, Str(JSONstringifyObject(error))), context)
  ELSE IF error.k = "cyclic"
  THEN ClassifierThrows
  ELSE AppError(Str("UnknownError"), Str("An unknown error occurred"), context)

\* The initial Error State, also what clearError() sets
ClearedErrorState ==
  [hasError |-> FALSE, error |-> NoAppError, retryCount |-> 0, lastRetryAt |-> 0]

\* Variant of handleError that starts the count of attempts again
handleErrorResettingCount(prev, error, context) ==
  IF createAppError(error, context) = ClassifierThrows THEN prev
  ELSE [prev EXCEPT !.hasError = TRUE, !.error = createAppError(error, context),
                    !.retryCount = 0, !.lastRetryAt = 0]

\* handleError(error, context) on Error State prev: the state it sets, or
\* prev when the classifier throws before the state is set
handleError(prev, error, context) ==
  IF createAppError(error, context) = ClassifierThrows THEN prev
  ELSE [prev EXCEPT !.hasError = TRUE, !.error = createAppError(error, context)]

\* Variant of clearError that keeps the count and stamp of the attempts
clearErrorKeepingCount(prev) == [prev EXCEPT !.hasError = FALSE, !.error = NoAppError]

\* clearError()
clearError(prev) == ClearedErrorState

\* What a render captures of the Error State for the callbacks and values
\* it hands out
Rendered(state) == [hasError |-> state.hasError, retryCount |-> state.retryCount]

\* retry(): errorState.retryCount >= maxRetries, read from the Error State
\* the callback captured when it was rendered
RetryRefused(rendered, maxRetries) == rendered.retryCount >= maxRetries

\* Variant of the update of retry() that counts an attempt without stamping it
CountRetryUnstamped(prev, now) == [prev EXCEPT !.retryCount = @ + 1]

\* retry(): the functional update that counts and stamps an attempt
CountRetry(prev, now) ==
  [prev EXCEPT !.retryCount = @ + 1, !.lastRetryAt = now]

\* The hook before any render of a view
HookIdle(maxRetries) ==
  [maxRetries |-> maxRetries, rendered |-> Rendered(ClearedErrorState),
   pending |-> 0, calls |-> 0]

NoCall ==
  [op |-> "none", invoked |-> FALSE, before |-> ClearedErrorState,
   threw |-> FALSE, value |-> UndefinedValue, context |-> Undefined]

---------------------------------------------------------------------------
(* Remote Image Fetch Unit (useDogApi)                                     *)

\* String.prototype.includes on the strings the unit meets
Includes(text, part) ==
  <<text, part>> \in
    { <<"application/json", "application/json">>,
      <<"application/json; charset=utf-8", "application/json">>,
      <<"Failed to fetch", "Failed to fetch">>,
      <<"TypeError: Failed to fetch", "Failed to fetch">> }

\* A parsed body: its JavaScript type and, for an object, its message and
\* status properties; "invalid" is a body response.json() cannot parse.
Body(k, message, status) == [k |-> k, message |-> message, status |-> status]
NullData == Body("none", Undefined, Undefined)

\* A response: status, statusText, the content-type header and the body
Response(status, statusText, contentType, body) ==
  [status |-> status, statusText |-> statusText, contentType |-> contentType,
   body |-> body]

\* response.ok
ResponseOk(response) == response.status >= 200 /\ response.status <= 299

\* An API Error Detail
ApiError(status, statusText, message) ==
  [status |-> status, statusText |-> statusText, message |-> message]
NoErrorDetails == ApiError(-1, "", "")

\* What fetch() settles with: a response, or a thrown value
Responded(response) ==
  [k |-> "response", response |-> response, value |-> UndefinedValue]
Rejected(value) ==
  [k |-> "rejected",
   response |-> Response(0, "", Null, NullData), value |-> value]

\* The try block after fetch() has resolved: the errorDetails it sets and
\* the value it throws, or the data it stores
NotThrown == [k |-> "none", code |-> Undefined, name |-> Undefined, message |-> Undefined]

\* Variant of ValidateResponse that checks message and status by type only
ValidateResponseByTypeOnly(response) ==
  LET result == response.body
      Fails(details, message) ==
        [errorDetails |-> details, thrown |-> NativeError("Error", message),
         data |-> NullData]
  IN IF ~ResponseOk(response)
     THEN Fails(ApiError(response.status, response.statusText,
                         "HTTP " \o ToString(response.status) \o ": "
                           \o response.statusText),
                "HTTP error! status: " \o ToString(response.status) \o " - "
                  \o response.statusText)
     ELSE IF Falsy(response.contentType)
             \/ ~Includes(response.contentType.s, "application/json")
     THEN Fails(ApiError(response.status, response.statusText,
                         "Invalid response content type"),
                "Invalid response content type")
     ELSE IF result.k = "invalid"
     THEN [errorDetails |-> NoErrorDetails,
           thrown |-> NativeError("SyntaxError", "Unexpected token"),
           data |-> NullData]
     ELSE IF result.k \notin {"object", "array"}
     THEN Fails(NoErrorDetails, "Invalid response format: not an object")
     ELSE IF typeof(result.message) # "string"
     THEN Fails(NoErrorDetails,
                "Invalid response format: missing or invalid message field")
     ELSE IF typeof(result.status) # "string"
     THEN Fails(NoErrorDetails,
                "Invalid response format: missing or invalid status field")
     ELSE [errorDetails |-> NoErrorDetails, thrown |-> NotThrown, data |-> result]

ValidateResponse(response) ==
  LET result == response.body
      Fails(details, message) ==
        [errorDetails |-> details, thrown |-> NativeError("Error", message),
         data |-> NullData]
  IN IF ~ResponseOk(response)
     THEN Fails(ApiError(response.status, response.statusText,
                         "HTTP " \o ToString(response.status) \o ": "
                           \o response.statusText),
                "HTTP error! status: " \o ToString(response.status) \o " - "
                  \o response.statusText)
     ELSE IF Falsy(response.contentType)
             \/ ~Includes(response.contentType.s, "application/json")
     THEN Fails(ApiError(response.status, response.statusText,
                         "Invalid response content type"),
                "Invalid response content type")
     ELSE IF result.k = "invalid"
     THEN [errorDetails |-> NoErrorDetails,
           thrown |-> NativeError("SyntaxError", "Unexpected token"),
           data |-> NullData]
     ELSE IF result.k \notin {"object", "array"}
     THEN Fails(NoErrorDetails, "Invalid response format: not an object")
     ELSE IF Falsy(result.message) \/ typeof(result.message) # "string"
     THEN Fails(NoErrorDetails,
                "Invalid response format: missing or invalid message field")
     ELSE IF Falsy(result.status) \/ typeof(result.status) # "string"
     THEN Fails(NoErrorDetails,
                "Invalid response format: missing or invalid status field")
     ELSE [errorDetails |-> NoErrorDetails, thrown |-> NotThrown, data |-> result]

\* Variant of ClassifyFailure that looks for 'Failed to fetch' first
ClassifyFailureNetworkFirst(err) ==
  IF err.k = "Error"
  THEN IF Includes(err.message.s, "Failed to fetch")
       THEN [errorDetails |-> ApiError(0, "Network Error", "Network connection failed"),
             value |-> NativeError("Error", "Network connection failed"),
             context |-> Str("useDogApi-network")]
       ELSE IF err.name = Str("AbortError")
       THEN [errorDetails |-> ApiError(408, "Request Timeout",
                                       "Request timed out after 10 seconds"),
             value |-> NativeError("Error", "Request timed out"),
             context |-> Str("useDogApi-timeout")]
       ELSE [errorDetails |-> NoErrorDetails, value |-> err,
             context |-> Str("useDogApi-general")]
  ELSE [errorDetails |-> NoErrorDetails, value |-> err,
        context |-> Str("useDogApi-unknown")]

\* The catch block: the errorDetails it sets (NoErrorDetails: none), and the
\* value and context it hands to handleError
ClassifyFailure(err) ==
  IF err.k = "Error"
  THEN IF err.name = Str("AbortError")
       THEN [errorDetails |-> ApiError(408, "Request Timeout",
                                       "Request timed out after 10 seconds"),
             value |-> NativeError("Error", "Request timed out"),
             context |-> Str("useDogApi-timeout")]
       ELSE IF Includes(err.message.s, "Failed to fetch")
       THEN [errorDetails |-> ApiError(0, "Network Error", "Network connection failed"),
             value |-> NativeError("Error", "Network connection failed"),
             context |-> Str("useDogApi-network")]
       ELSE [errorDetails |-> NoErrorDetails, value |-> err,
             context |-> Str("useDogApi-general")]
  ELSE [errorDetails |-> NoErrorDetails, value |-> err,
        context |-> Str("useDogApi-unknown")]

\* The state of the unit when it mounts
DogApiIdle ==
  [data |-> NullData, loading |-> TRUE, error |-> FALSE,
   errorDetails |-> NoErrorDetails,
   mounted |-> FALSE,   \* the effect has issued its request
   fetching |-> 0,      \* requests of the effect in flight
   retrying |-> 0,      \* requests of retry() in flight
   returned |-> 0,      \* requests of retry() that returned to retry()
   failedRetries |-> 0] \* retry() requests that failed since the last success

\* fetchDogImage up to await fetch(...)
FetchStarted(api) ==
  [api EXCEPT !.loading = TRUE, !.error = FALSE, !.errorDetails = NoErrorDetails]

\* fetchDogImage from the settling of fetch() to its end, were its catch block
\* to drop the data it held
FetchSettledDroppingData(api, state, outcome) ==
  LET checked == IF outcome.k = "response" THEN ValidateResponse(outcome.response)
                 ELSE [errorDetails |-> NoErrorDetails, thrown |-> outcome.value,
                       data |-> NullData]
      failure == ClassifyFailure(checked.thrown)
      details == IF failure.errorDetails # NoErrorDetails THEN failure.errorDetails
                 ELSE IF checked.errorDetails # NoErrorDetails THEN checked.errorDetails
                 ELSE api.errorDetails
  IN IF checked.thrown = NotThrown
     THEN [api |-> [api EXCEPT !.data = checked.data, !.error = FALSE,
                               !.loading = FALSE],
           errorState |-> state, failed |-> FALSE]
     ELSE [api |-> [api EXCEPT !.data = NullData, !.errorDetails = details,
                               !.error = TRUE, !.loading = FALSE],
           errorState |-> handleError(state, failure.value, failure.context),
           failed |-> TRUE]

\* fetchDogImage from the settling of fetch() to its end: the unit's state
\* and the Error State
FetchSettled(api, state, outcome) ==
  LET checked == IF outcome.k = "response" THEN ValidateResponse(outcome.response)
                 ELSE [errorDetails |-> NoErrorDetails, thrown |-> outcome.value,
                       data |-> NullData]
      failure == ClassifyFailure(checked.thrown)
      details == IF failure.errorDetails # NoErrorDetails THEN failure.errorDetails
                 ELSE IF checked.errorDetails # NoErrorDetails THEN checked.errorDetails
                 ELSE api.errorDetails
  IN IF checked.thrown = NotThrown
     THEN [api |-> [api EXCEPT !.data = checked.data, !.error = FALSE,
                               !.loading = FALSE],
           errorState |-> state, failed |-> FALSE]
     ELSE [api |-> [api EXCEPT !.errorDetails = details, !.error = TRUE,
                               !.loading = FALSE],
           errorState |-> handleError(state, failure.value, failure.context),
           failed |-> TRUE]

---------------------------------------------------------------------------
(* Main View (MainAppContent)                                              *)

\* The keys of the four buttons
ButtonKeys == {"child1", "child2", "child3", "terminate"}

\* The timeout of an action's race, in ms
IpcTimeoutMs == 5000

\* What the bridge call of an action settles with: an envelope, no response,
\* or a thrown value
Envelope(success, err) == [k |-> "envelope", success |-> success, error |-> err]
AbsentResponse == [k |-> "absent", success |-> FALSE, error |-> Undefined]
BridgeResolved(response) ==
  [k |-> "resolved", response |-> response, value |-> UndefinedValue]
BridgeRejected(value) ==
  [k |-> "rejected", response |-> AbsentResponse, value |-> value]

\* The state of the view once mounted: window.electronAPI is "ok", lacks its
\* methods ("incomplete") or is "absent"
MainAppIdle(bridge) ==
  [bridge |-> bridge,
   isLoading |-> "null",
   error |-> IF bridge = "absent"
             THEN "Electron API not available - application may not be running in Electron context"
             ELSE "null",
   retryCount |-> [key \in ButtonKeys |-> 0],
   started |-> 0,       \* actions started so far
   actions |-> <<>>,    \* the actions awaiting their race, by number
   late |-> <<>>]       \* the keys of the actions whose timer won the race

\* isButtonDisabled(buttonType)
isButtonDisabled(buttonType) ==
  mainApp.isLoading = buttonType \/ mainApp.bridge = "absent"

\* The label of a button
ButtonLabel(key) ==
  IF mainApp.isLoading = key
  THEN (IF key = "terminate" THEN "Terminating..." ELSE "Opening...")
  ELSE key

\* The handlers up to the race: the loading flag, the banner, the checks of
\* the bridge
ActionStarted(state, key) ==
  [state EXCEPT !.isLoading = key, !.error = "null"]

BridgeCheck(state, key) ==
  IF state.bridge = "absent" THEN NativeError("Error", "Electron API not available")
  ELSE IF state.bridge = "incomplete"
  THEN NativeError("Error",
         IF key = "terminate" THEN "terminateAllWindows method not available"
         ELSE "openChildWindow method not available")
  ELSE NotThrown

\* The handlers after the race: what they throw for what the race settled with
ActionThrows(settled) ==
  IF settled.k = "rejected" THEN settled.value
  ELSE IF settled.response.k = "absent"
  THEN NativeError("Error", "No response received from main process")
  ELSE IF ~settled.response.success
  THEN NativeError("Error",
         Or(settled.response.error, Str("Unknown error occurred")).s)
  ELSE NotThrown

\* The banner of a failed action
FailureBanner(key, err) ==
  LET errorMessage == IF err.k = "Error" THEN err.message.s
                      ELSE "Unknown error occurred"
  IN IF key = "terminate" THEN "Failed to terminate windows: " \o errorMessage
     ELSE "Failed to open " \o key \o " window: " \o errorMessage

ActionContext(key) ==
  IF key = "terminate" THEN Str("MainApp-terminate")
  ELSE Str("MainApp-openWindow-" \o key)

\* Variant of RetryCounted that writes the counters anew
RetryCountedAnew(prev, key, failed) ==
  [k \in ButtonKeys |-> IF k = key /\ failed THEN prev[k] + 1 ELSE 0]

\* setRetryCount: the functional updates of success and failure
RetryCounted(prev, key, failed) ==
  [prev EXCEPT ![key] = IF failed THEN @ + 1 ELSE 0]

\* The handlers from the throw or the success to the final step
ActionFinished(state, key, err) ==
  IF err = NotThrown
  THEN [state EXCEPT !.retryCount = RetryCounted(@, key, FALSE), !.isLoading = "null"]
  ELSE [state EXCEPT !.error = FailureBanner(key, err),
                   !.retryCount = RetryCounted(@, key, TRUE),
                   !.isLoading = "null"]

\* Variant of the race in which a settlement after the first one still
\* reaches the handler
LastSettlementWins(state, settledBefore, key, err) == ActionFinished(state, key, err)

\* await Promise.race([operationPromise, timeoutPromise]): the handler goes
\* on with the first settlement, and a later one reaches nothing
PromiseRace(state, settledBefore, key, err) ==
  IF settledBefore THEN state ELSE ActionFinished(state, key, err)

\* Variant of TimeLeft for an action that awaits the bridge call alone
TimeLeftWithoutTimer(action) == 2 * IpcTimeoutMs - action.elapsed

\* The time left before the timer of an action's race is due
TimeLeft(action) == IpcTimeoutMs - action.elapsed

---------------------------------------------------------------------------
(* Main-Window Bridge (invokeWithRetry, electronAPI)                       *)

\* The defaults of invokeWithRetry
maxRetries == 3
retryDelay == 1000

BridgeMethods == {"openChildWindow", "terminateAllWindows", "getActiveWindowCount"}

\* The channel a method invokes
Channel(method) ==
  CASE method = "openChildWindow" -> "open-child-window"
    [] method = "terminateAllWindows" -> "terminate-all-windows"
    [] method = "getActiveWindowCount" -> "get-active-window-count"

\* What one ipcRenderer.invoke settles with
InvokeResolved(value) == [k |-> "resolved", value |-> value]
InvokeRejected(value) == [k |-> "rejected", value |-> value]

\* String(error)
StringOf(error) ==
  CASE error.k = "string" -> error.message.s
    [] error.k = "null" -> "null"
    [] error.k = "undefined" -> "undefined"
    [] OTHER -> "[object Object]"

\* lastError = error instanceof Error ? error : new Error(String(error))
LastError(error) ==
  IF error.k = "Error" THEN error ELSE NativeError("Error", StringOf(error))

\* Variant of ShouldWait that waits after every failed attempt
ShouldWaitAlways(attempt) == TRUE

\* attempt < maxRetries
ShouldWait(attempt) == attempt < maxRetries

\* The methods' catch: error instanceof Error ? error.message : ...
BridgeErrorMessage(error) ==
  IF error.k = "Error" THEN error.message.s ELSE "IPC communication failed"

\* Variant of IpcErrorSent that sends nothing
IpcErrorNotSent(sent, id, channel, errorMessage) == sent

\* ipcRenderer.send('ipc-error', {channel, error, timestamp}), with the call
\* that sent it
IpcErrorSent(sent, id, channel, errorMessage) ==
  Append(sent, [call |-> id, name |-> "ipc-error", channel |-> channel,
                error |-> errorMessage])

\* Variant of InvalidWindowType that only looks at the type of the argument
InvalidWindowTypeByTypeOnly(method, type) ==
  method = "openChildWindow" /\ typeof(type) # "string"

\* openChildWindow: !type || typeof type !== 'string'
InvalidWindowType(method, type) ==
  method = "openChildWindow" /\ (Falsy(type) \/ typeof(type) # "string")

\* A call of a method of the bridge
BridgeCallStarted(method, type) ==
  [method |-> method,
   type |-> type,          \* the argument of the call
   phase |-> "invoking",   \* "invoking", "waiting" or "done"
   attempt |-> 1,
   lastError |-> NotThrown,
   helper |-> [k |-> "none", value |-> UndefinedValue],  \* returned or raised
   resolved |-> AbsentResponse,  \* what the method resolved with
   requests |-> 1,         \* invokes issued
   waited |-> 0,           \* ms spent in the delays
   attempts |-> <<>>]      \* what each invoke settled with

\* A call of openChildWindow with an invalid type
BridgeCallInvalid(method, type) ==
  [BridgeCallStarted(method, type) EXCEPT
     !.phase = "done", !.requests = 0,
     !.resolved = Envelope(FALSE, Str("Invalid window type: must be a non-empty string"))]

\* invokeWithRetry and the method after an invoke resolved
AttemptResolved(call, value) ==
  [call EXCEPT !.phase = "done", !.helper = [k |-> "returned", value |-> value],
               !.resolved = value,
               !.attempts = Append(@, InvokeResolved(value))]

\* invokeWithRetry after an invoke rejected, up to its delay or its throw
AttemptRejected(call, error) ==
  LET failed == [call EXCEPT !.lastError = LastError(error),
                             !.attempts = Append(@, InvokeRejected(error))]
  IN IF ShouldWait(call.attempt) THEN [failed EXCEPT !.phase = "waiting"]
     ELSE IF call.attempt + 1 <= maxRetries
     THEN [failed EXCEPT !.attempt = @ + 1, !.requests = @ + 1]
     ELSE [failed EXCEPT
             !.phase = "done",
             !.helper = [k |-> "raised", value |-> failed.lastError],
             !.resolved = Envelope(FALSE, Str(BridgeErrorMessage(failed.lastError)))]

\* invokeWithRetry after its delay: the next attempt, or the throw
DelayPassed(call) ==
  LET waited == [call EXCEPT !.waited = @ + retryDelay]
  IN IF call.attempt + 1 <= maxRetries
     THEN [waited EXCEPT !.phase = "invoking", !.attempt = @ + 1, !.requests = @ + 1]
     ELSE [waited EXCEPT
             !.phase = "done",
             !.helper = [k |-> "raised", value |-> call.lastError],
             !.resolved = Envelope(FALSE, Str(BridgeErrorMessage(call.lastError)))]

\* The bridge before any call
IpcIdle == [started |-> 0, calls |-> <<>>, sent |-> <<>>]

---------------------------------------------------------------------------
(* Child-Window Bridge (electronAPI of the child preload) and the wire     *)

\* Variant of ChildBridgeMethods that exposes openChildWindow too
ChildBridgeMethodsWithOpen == {"log", "reportError", "getWindowInfo", "openChildWindow"}

\* The methods the child preload exposes
ChildBridgeMethods == {"log", "reportError", "getWindowInfo"}

\* The electronAPI object of a view's window
Exposed(view) == IF view = "main" THEN BridgeMethods ELSE ChildBridgeMethods

\* The channels a method sends on when it is called. outcome is how a call
\* of the primary window's bridge went: "invalid" (the argument was
\* refused), "resolved", or "raised" (every attempt failed).
ChannelsOf(method, outcome) ==
  CASE method \in BridgeMethods ->
         IF outcome = "invalid" THEN {}
         ELSE IF outcome = "raised" THEN {Channel(method), "ipc-error"}
         ELSE {Channel(method)}
    [] method = "log" -> {"child-log"}
    [] method = "reportError" -> {"child-error"}
    [] method = "getWindowInfo" -> {}

\* The outcomes a call of a method can have
CallOutcomes(method) ==
  IF method = "openChildWindow" THEN {"invalid", "resolved", "raised"}
  ELSE IF method \in BridgeMethods THEN {"resolved", "raised"}
  ELSE {"resolved"}

\* window.electronAPI[method](...) in a view: a method the object does not
\* have cannot be called
CallSends(view, method, outcome) ==
  IF method \in Exposed(view)
  THEN {[from |-> view, channel |-> c] : c \in ChannelsOf(method, outcome)}
  ELSE {}

WireIdle == [sent |-> {}, view |-> "none", method |-> "none", called |-> FALSE]

---------------------------------------------------------------------------
(* Logger (Logger.getInstance, createLogger)                               *)

\* Logger.instance before the first call, and a Logger object
NoInstance == [id |-> 0, windowType |-> Undefined]
LoggerObject(id, windowType) == [id |-> id, windowType |-> windowType]

\* Variant of getInstance that takes over the tag of a later call
getInstanceRetagging(lg, windowType) ==
  IF lg.instance = NoInstance
  THEN [lg EXCEPT !.instance = LoggerObject(lg.constructed + 1, windowType),
                  !.constructed = @ + 1]
  ELSE IF windowType # Undefined
  THEN [lg EXCEPT !.instance.windowType = windowType]
  ELSE lg

\* Logger.getInstance(windowType): the static field after the call; the
\* call returns the field
getInstance(lg, windowType) ==
  IF lg.instance = NoInstance
  THEN [lg EXCEPT !.instance = LoggerObject(lg.constructed + 1, windowType),
                  !.constructed = @ + 1]
  ELSE lg

\* The process before any call
LoggerIdle == [instance |-> NoInstance, constructed |-> 0, calls |-> <<>>]

---------------------------------------------------------------------------
(* The cancellation timer of fetchDogImage                                 *)

\* The delay of setTimeout(() => controller.abort(), 10000)
FetchTimeoutMs == 10000

\* An invocation up to await fetch(...): the timer is armed. fetch is
\* "pending", "resolved" or "rejected"; aborts: the abort() calls, each
\* with the state of the request it found; body: response.json() is not
\* called ("none"), is "reading", or has settled ("received", "failed");
\* loading: the finally block has not run yet.
FetchArmed ==
  [age |-> 0, timer |-> "armed", fetch |-> "pending", reason |-> "none",
   aborts |-> <<>>, body |-> "none", loading |-> TRUE]

\* fetch() resolved: clearTimeout(timeoutId) is the next statement
FetchResolvedClears(request) ==
  [request EXCEPT !.fetch = "resolved", !.timer = "cleared"]

\* fetch() rejected: control goes to the catch block and the finally block
FetchRejectedKeeps(request, reason) ==
  [request EXCEPT !.fetch = "rejected", !.reason = reason, !.loading = FALSE]

\* The checks of response.ok and of the content type: a throw, which ends
\* the invocation, or await response.json()
HeadersChecked(request, accepted) ==
  IF accepted THEN [request EXCEPT !.body = "reading"]
  ELSE [request EXCEPT !.loading = FALSE]

\* response.json() has settled: the rest of the try block or the catch
\* block, then the finally block
BodySettled(request, outcome) ==
  [request EXCEPT !.body = outcome, !.loading = FALSE]

\* The timer's callback: controller.abort(), which rejects a pending fetch
AbortCallback(request) ==
  [request EXCEPT
     !.timer = "fired",
     !.aborts = Append(@, request.fetch),
     !.fetch = IF @ = "pending" THEN "rejected" ELSE @,
     !.reason = IF request.fetch = "pending" THEN "AbortError" ELSE @,
     !.loading = IF request.fetch = "pending" THEN FALSE ELSE @]

---------------------------------------------------------------------------
(* Child View (Child1ComponentContent)                                     *)

\* What a render of the view returns: the panel, its texts and buttons and
\* the src of its img element
Rendered1(panel, texts, buttons, img) ==
  [heading |-> "Child 1", panel |-> panel, texts |-> texts,
   buttons |-> buttons, img |-> img]

\* errorDetails.message || `Error ${status}: ${statusText}`
ErrorDetailsLine(errorDetails) ==
  IF errorDetails.message # "" THEN errorDetails.message
  ELSE "Error " \o ToString(errorDetails.status) \o ": " \o errorDetails.statusText

\* Variant of Child1Render that looks at the error before loading
Child1RenderErrorFirst(props, imageError) ==
  IF props.error \/ props.data = NullData \/ props.data.status # Str("success")
  THEN Rendered1("error",
                 {"Something wrong"}
                   \cup (IF props.errorDetails # NoErrorDetails
                         THEN {ErrorDetailsLine(props.errorDetails)} ELSE {}),
                 IF props.canRetry THEN {"Try Again"} ELSE {}, Undefined)
  ELSE IF props.loading
  THEN Rendered1("spinner", {"Loading dog image..."}, {}, Undefined)
  ELSE IF imageError
  THEN Rendered1("image-error",
                 {"Failed to load image", "Status: " \o TemplateString(props.data.status)},
                 {"Reload Image"}, Undefined)
  ELSE Rendered1("image", {"Status: " \o TemplateString(props.data.status)}, {},
                 props.data.message)

\* The component's return value for what useDogApi returned and imageError
Child1Render(props, imageError) ==
  IF props.loading
  THEN Rendered1("spinner", {"Loading dog image..."}, {}, Undefined)
  ELSE IF props.error \/ props.data = NullData \/ props.data.status # Str("success")
  THEN Rendered1("error",
                 {"Something wrong"}
                   \cup (IF props.errorDetails # NoErrorDetails
                         THEN {ErrorDetailsLine(props.errorDetails)} ELSE {}),
                 IF props.canRetry THEN {"Try Again"} ELSE {}, Undefined)
  ELSE IF imageError
  THEN Rendered1("image-error",
                 {"Failed to load image", "Status: " \o TemplateString(props.data.status)},
                 {"Reload Image"}, Undefined)
  ELSE Rendered1("image", {"Status: " \o TemplateString(props.data.status)}, {},
                 props.data.message)

\* What useDogApi returns on the first render
DogApiFirstReturn ==
  [data |-> NullData, loading |-> TRUE, error |-> FALSE,
   errorDetails |-> NoErrorDetails, canRetry |-> TRUE]

\* The view with the hook's return value props and its own state
ChildView(props, imageError) ==
  [props |-> props, imageError |-> imageError,
   rendered |-> Child1Render(props, imageError)]

ChildIdle == ChildView(DogApiFirstReturn, FALSE)

\* The views before they are used
RendererInit ==
  /\ errorState = ClearedErrorState
  /\ hook = HookIdle(3)
  /\ lastCall = NoCall
  /\ dogApi = DogApiIdle
  /\ mainApp = MainAppIdle("ok")
  /\ ipc = IpcIdle
  /\ child = ChildIdle
  /\ wire = WireIdle
  /\ logger = LoggerIdle
  /\ fetchTimeout = <<>>
  /\ boundary = BoundaryMounted(Undefined, 1)

---------------------------------------------------------------------------
(* Inputs                                                                  *)

\* type arguments of direct createChildWindow calls: two kinds (the manager
\* only compares kinds for equality) and values that are no kind
TypeInputs ==
  {Str("child1"), Str("child2")} \cup {Str(""), Num(42), Undefined}

\* width or height values that are no positive finite number
BadNumbers == {Undefined, Str("300"), NaN, Infinity, NegInfinity, Num(0), Num(-100)}

\* dimensions arguments of direct createChildWindow calls
DimInputs ==
  {NullDims, Dims(Num(300), Num(300))}
    \cup {Dims(b, Num(300)) : b \in BadNumbers}
    \cup {Dims(Num(300), b) : b \in BadNumbers}

\* type properties of request payloads
RequestTypes ==
  {Str(k) : k \in Kinds}
    \cup {Undefined, Str(""), Num(42), Str("invalid"), Str("toString"), Str("__proto__")}

PayloadInputs ==
  {UndefinedPayload, NullPayload, StringPayload}
    \cup {ObjectPayload(ty) : ty \in RequestTypes}

LevelInputs == {Str("info"), Str("warn"), Str("error"), Str("debug"), Undefined}

\* What the platform can do in one createChildWindow call: focus() is
\* reached when the arguments are valid and the lookup finds a window, the
\* constructor when no window is returned before it.
FocusOutcomes(type, dimensions) ==
  IF /\ ValidateArguments(type, dimensions) = NoError
     /\ findWindowByType(childWindows, wins, type.s).window # 0
  THEN BOOLEAN ELSE {FALSE}

CtorOutcomes(type, dimensions, focusThrows) ==
  IF /\ ValidateArguments(type, dimensions) = NoError
     /\ ~findWindowByType(childWindows, wins, type.s).threw
     /\ findWindowByType(childWindows, wins, type.s).window # 0 => focusThrows
  THEN {"ok", "Error", "other"} ELSE {"ok"}

\* The same for an open-child-window request
RequestFocusOutcomes(data) ==
  IF ValidateRequest(data) = NoError
  THEN FocusOutcomes(data.type, ConfigLookup(data.type.s)) ELSE {FALSE}

RequestCtorOutcomes(data, focusThrows) ==
  IF ValidateRequest(data) = NoError
  THEN CtorOutcomes(data.type, ConfigLookup(data.type.s), focusThrows) ELSE {"ok"}

\* The tracked windows on which a sweep can call close()
Closable == {h \in Tracked(childWindows) : wins[h].state = "live"}

\* What the platform does during one sweep
CloseInputs ==
  { <<co, kill>> \in
      [Closable -> {"pending", "closed", "throws"}]
        \X ({<<0, 0>>} \cup {p \in Closable \X Closable : p[1] < p[2]}) :
      kill[1] # 0 => co[kill[1]] # "throws" }

---------------------------------------------------------------------------
(* Actions                                                                 *)

NoData == [t |-> "none", type |-> Undefined]

NoLast ==
  [ op |-> "none", data |-> NoData, threw |-> FALSE,
    window |-> 0, focused |-> 0, constructed |-> FALSE, calledManager |-> FALSE,
    called |-> {}, removed |-> {}, count |-> 0, reply |-> NoReply ]

Init ==
  /\ app = "starting"
  /\ mainWindow = "none"
  /\ wins = <<>>
  /\ childWindows = <<>>
  /\ windowCounter = 0
  /\ last = NoLast
  /\ flow = -1
  /\ issued = <<>>
  /\ showTimeout = <<>>
  /\ RendererInit

\* What a step does to the end-to-end flow open child1, child2, child3,
\* terminate, open: the next stage, or -1 once the flow is left.
FlowAfterOpen(data, ctor) ==
  IF ctor # "ok" THEN -1
  ELSE IF flow = 0 /\ data = ObjectPayload(Str("child1")) THEN 1
  ELSE IF flow = 1 /\ data = ObjectPayload(Str("child2")) THEN 2
  ELSE IF flow = 2 /\ data = ObjectPayload(Str("child3")) THEN 3
  ELSE IF flow = 4 /\ data.t = "object" /\ data.type.s \in Kinds THEN 5
  ELSE -1

FlowAfterTerminate(closeOutcome, kill) ==
  IF /\ flow = 3
     /\ kill = <<0, 0>>
     /\ \A h \in DOMAIN closeOutcome : closeOutcome[h] # "throws"
  THEN 4 ELSE -1

\* app.whenReady(): the manager is constructed, the handlers are registered
\* and the primary window is created.
AppReady ==
  /\ app = "starting"
  /\ app' = "ready"
  /\ mainWindow' = "open"
  /\ flow' = 0
  /\ last' = [NoLast EXCEPT !.op = "ready"]
  /\ UNCHANGED <<wins, childWindows, windowCounter>>

\* A direct call of WindowManager.createChildWindow
CreateChildWindowCall(type, dimensions, focusThrows, ctor, bound) ==
  LET r == createChildWindow(type, dimensions, focusThrows, ctor) IN
  /\ app = "ready"
  /\ windowCounter < bound
  /\ windowCounter' = r.windowCounter
  /\ childWindows' = r.childWindows
  /\ wins' = Collect(r.childWindows, r.wins)
  /\ last' = [NoLast EXCEPT !.op = "createChildWindow", !.threw = r.threw,
                            !.window = r.window, !.focused = r.focused,
                            !.constructed = r.constructed]
  /\ flow' = -1
  /\ UNCHANGED <<app, mainWindow>>

\* A direct call of WindowManager.closeAllChildWindows
CloseAllChildWindowsCall(closeOutcome, kill) ==
  LET r == closeAllChildWindows(closeOutcome, kill) IN
  /\ app = "ready"
  /\ childWindows' = r.childWindows
  /\ wins' = Collect(r.childWindows, r.wins)
  /\ last' = [NoLast EXCEPT !.op = "closeAllChildWindows",
                            !.called = r.called, !.count = r.closedCount]
  /\ flow' = -1
  /\ UNCHANGED <<app, mainWindow, windowCounter>>

\* A direct call of WindowManager.getActiveWindowCount
GetActiveWindowCountCall ==
  LET r == getActiveWindowCount(childWindows, wins) IN
  /\ app = "ready"
  /\ childWindows' = r.childWindows
  /\ wins' = Collect(r.childWindows, wins)
  /\ last' = [NoLast EXCEPT !.op = "getActiveWindowCount", !.count = r.count,
                            !.removed = Tracked(childWindows) \ Tracked(r.childWindows)]
  /\ flow' = -1
  /\ UNCHANGED <<app, mainWindow, windowCounter>>

\* An open-child-window request is handled
OpenChildWindow(data, focusThrows, ctor, bound) ==
  LET r == OpenChildWindowHandler(data, focusThrows, ctor) IN
  /\ app = "ready"
  /\ windowCounter < bound
  /\ windowCounter' = r.windowCounter
  /\ childWindows' = r.childWindows
  /\ wins' = Collect(r.childWindows, r.wins)
  /\ last' = [NoLast EXCEPT !.op = "open-child-window", !.data = data,
                            !.window = r.window, !.focused = r.focused,
                            !.constructed = r.constructed,
                            !.calledManager = r.calledManager,
                            !.reply = r.reply]
  /\ flow' = FlowAfterOpen(data, ctor)
  /\ UNCHANGED <<app, mainWindow>>

\* A terminate-all-windows request is handled
TerminateAllWindows(closeOutcome, kill) ==
  LET r == closeAllChildWindows(closeOutcome, kill) IN
  /\ app = "ready"
  /\ childWindows' = r.childWindows
  /\ wins' = Collect(r.childWindows, r.wins)
  /\ last' = [NoLast EXCEPT !.op = "terminate-all-windows",
                            !.called = r.called, !.count = r.closedCount,
                            !.calledManager = TRUE,
                            !.reply = TerminateAllWindowsHandler(r)]
  /\ flow' = FlowAfterTerminate(closeOutcome, kill)
  /\ UNCHANGED <<app, mainWindow, windowCounter>>

\* A get-active-window-count request is handled
GetActiveWindowCount ==
  LET r == getActiveWindowCount(childWindows, wins) IN
  /\ app = "ready"
  /\ childWindows' = r.childWindows
  /\ last' = [NoLast EXCEPT !.op = "get-active-window-count",
                            !.count = r.count, !.calledManager = TRUE,
                            !.removed = Tracked(childWindows) \ Tracked(r.childWindows),
                            !.reply = GetActiveWindowCountHandler(r.count)]
  /\ wins' = Collect(r.childWindows, wins)
  /\ UNCHANGED <<app, mainWindow, windowCounter, flow>>

\* A log request is handled
Log(level) ==
  /\ app = "ready"
  /\ last' = [NoLast EXCEPT !.op = "log", !.reply = LogHandler(level)]
  /\ UNCHANGED <<app, mainWindow, wins, childWindows, windowCounter, flow>>

\* The platform: a child window becomes destroyed without a 'closed' event
\* reaching the manager
WindowDestroyed(h) ==
  /\ wins[h].state # "destroyed"
  /\ wins' = Collect(childWindows, [wins EXCEPT ![h].state = "destroyed"])
  /\ last' = [NoLast EXCEPT !.op = "event"]
  /\ flow' = IF h \in Tracked(childWindows) THEN -1 ELSE flow
  /\ UNCHANGED <<app, mainWindow, childWindows, windowCounter>>

\* The platform: the liveness check of a child window starts to throw
WindowFaulty(h) ==
  /\ wins[h].state = "live"
  /\ wins' = [wins EXCEPT ![h].state = "faulty"]
  /\ last' = [NoLast EXCEPT !.op = "event"]
  /\ flow' = IF h \in Tracked(childWindows) THEN -1 ELSE flow
  /\ UNCHANGED <<app, mainWindow, childWindows, windowCounter>>

\* The platform: a child window is closed and its 'closed' event fires
WindowClosed(h) ==
  /\ wins[h].state # "destroyed" \/ h \in Tracked(childWindows)
  /\ childWindows' = OnClosed(childWindows, wins, h)
  /\ wins' = Collect(childWindows', [wins EXCEPT ![h].state = "destroyed"])
  /\ last' = [NoLast EXCEPT !.op = "closed", !.window = h]
  /\ flow' = IF h \in Tracked(childWindows) THEN -1 ELSE flow
  /\ UNCHANGED <<app, mainWindow, windowCounter>>

\* Variant of MainWindowClosed whose handler leaves the child windows alone
MainWindowClosedWithoutSweep(closeOutcome, kill) ==
  /\ mainWindow = "open"
  /\ mainWindow' = "closed"
  /\ last' = [NoLast EXCEPT !.op = "main-closed"]
  /\ flow' = -1
  /\ UNCHANGED <<app, windowCounter, childWindows, wins>>

\* The primary window's 'closed' event: the sweep over the child windows
MainWindowClosed(closeOutcome, kill) ==
  LET r == closeAllChildWindows(closeOutcome, kill) IN
  /\ mainWindow = "open"
  /\ mainWindow' = "closed"
  /\ childWindows' = r.childWindows
  /\ wins' = Collect(r.childWindows, r.wins)
  /\ last' = [NoLast EXCEPT !.op = "main-closed",
                            !.called = r.called, !.count = r.closedCount,
                            !.removed = Tracked(childWindows) \ Tracked(r.childWindows)]
  /\ flow' = -1
  /\ UNCHANGED <<app, windowCounter>>

\* app 'before-quit': the sweep, if the manager has been constructed
BeforeQuit(closeOutcome, kill) ==
  LET r == closeAllChildWindows(closeOutcome, kill) IN
  IF app = "ready"
  THEN /\ childWindows' = r.childWindows
       /\ wins' = Collect(r.childWindows, r.wins)
       /\ last' = [NoLast EXCEPT !.op = "before-quit",
                                 !.called = r.called, !.count = r.closedCount,
                                 !.removed = Tracked(childWindows) \ Tracked(r.childWindows)]
       /\ flow' = -1
       /\ UNCHANGED <<app, mainWindow, windowCounter>>
  ELSE /\ last' = [NoLast EXCEPT !.op = "before-quit"]
       /\ UNCHANGED <<app, mainWindow, windowCounter, childWindows, wins, flow>>

\* app 'activate' with no window open: the primary window is created again
Activate ==
  /\ app = "ready"
  /\ mainWindow = "closed"
  /\ \A h \in Handles : wins[h].state = "destroyed"
  /\ mainWindow' = "open"
  /\ last' = [NoLast EXCEPT !.op = "activate"]
  /\ flow' = -1
  /\ UNCHANGED <<app, wins, childWindows, windowCounter>>

\* The platform's events on child windows
WindowEvents ==
  \/ \E h \in Handles : WindowDestroyed(h)
  \/ \E h \in Handles : WindowFaulty(h)
  \/ \E h \in Handles : WindowClosed(h)

\* The Window Manager under direct calls, as its unit tests drive it
Next ==
  \/ /\ AppReady
     /\ UNCHANGED <<rendererVars, windowVars>>
  \/ /\ windowCounter < MaxCalls
     /\ \E type \in TypeInputs, dimensions \in DimInputs :
          \E focusThrows \in FocusOutcomes(type, dimensions) :
            \E ctor \in CtorOutcomes(type, dimensions, focusThrows) :
              CreateChildWindowCall(type, dimensions, focusThrows, ctor, MaxCalls)
     /\ UNCHANGED <<rendererVars, windowVars>>
  \/ /\ \E ci \in CloseInputs : CloseAllChildWindowsCall(ci[1], ci[2])
     /\ UNCHANGED <<rendererVars, windowVars>>
  \/ /\ GetActiveWindowCountCall
     /\ UNCHANGED <<rendererVars, windowVars>>
  \/ /\ WindowEvents
     /\ UNCHANGED <<rendererVars, windowVars>>

Spec == Init /\ [][Next]_vars

\* The Host under arbitrary requests
RouterNext ==
  \/ /\ AppReady
     /\ UNCHANGED <<rendererVars, windowVars>>
  \/ /\ windowCounter < MaxCalls
     /\ \E data \in PayloadInputs :
          \E focusThrows \in RequestFocusOutcomes(data) :
            \E ctor \in RequestCtorOutcomes(data, focusThrows) :
              OpenChildWindow(data, focusThrows, ctor, MaxCalls)
     /\ UNCHANGED <<rendererVars, windowVars>>
  \/ /\ \E ci \in CloseInputs : TerminateAllWindows(ci[1], ci[2])
     /\ UNCHANGED <<rendererVars, windowVars>>
  \/ /\ GetActiveWindowCount
     /\ UNCHANGED <<rendererVars, windowVars>>
  \/ /\ \E level \in LevelInputs : Log(level)
     /\ UNCHANGED <<rendererVars, windowVars>>
  \/ /\ WindowEvents
     /\ UNCHANGED <<rendererVars, windowVars>>
  \/ /\ \E ci \in CloseInputs : MainWindowClosed(ci[1], ci[2])
     /\ UNCHANGED <<rendererVars, windowVars>>
  \/ /\ Activate
     /\ UNCHANGED <<rendererVars, windowVars>>

RouterSpec == Init /\ [][RouterNext]_vars

\* The Host along the end-to-end flow of well-formed requests, up to the
\* first step that leaves it
OnFlow == app = "starting" \/ flow >= 0

FlowNext ==
  \/ /\ OnFlow /\ AppReady
     /\ UNCHANGED <<rendererVars, windowVars>>
  \/ /\ OnFlow /\ windowCounter < MaxFlowCalls
     /\ \E k \in Kinds :
          \E focusThrows \in RequestFocusOutcomes(ObjectPayload(Str(k))) :
            \E ctor \in RequestCtorOutcomes(ObjectPayload(Str(k)), focusThrows) :
              OpenChildWindow(ObjectPayload(Str(k)), focusThrows, ctor, MaxFlowCalls)
     /\ UNCHANGED <<rendererVars, windowVars>>
  \/ /\ OnFlow /\ \E ci \in CloseInputs : TerminateAllWindows(ci[1], ci[2])
     /\ UNCHANGED <<rendererVars, windowVars>>
  \/ /\ OnFlow /\ GetActiveWindowCount
     /\ UNCHANGED <<rendererVars, windowVars>>
  \/ /\ OnFlow /\ WindowEvents
     /\ UNCHANGED <<rendererVars, windowVars>>
  \/ /\ OnFlow /\ \E ci \in CloseInputs : MainWindowClosed(ci[1], ci[2])
     /\ UNCHANGED <<rendererVars, windowVars>>

FlowSpec == Init /\ [][FlowNext]_vars

---------------------------------------------------------------------------
(* The Retry Controller under direct calls                                 *)

\* The maxRetries a view configures
RetryLimits == {2, 3}

\* Values handed to handleError
ClassifierInputs ==
  {NativeError(n, m) : n \in {"Error", "TypeError", ""}, m \in {"X", ""}}
    \cup {StringValue("Y"), StringValue("")}
    \cup {ObjectValue(c, n, m) :
            c \in {Undefined, Str("E42"), Num(404)},
            n \in {Undefined, Str("Named")},
            m \in {Undefined, Str("M"), Str("")}}
    \cup {CyclicObject, NullValue, UndefinedValue, NumberValue}

ContextInputs == {Undefined, Str("ctx")}

\* Values a retried operation rejects with
RejectionInputs == {NativeError("Error", "X"), StringValue("Y"), CyclicObject}

HostIdle ==
  /\ app = "starting"
  /\ mainWindow = "none"
  /\ wins = <<>>
  /\ childWindows = <<>>
  /\ windowCounter = 0
  /\ last = NoLast
  /\ flow = -1
  /\ issued = <<>>
  /\ showTimeout = <<>>

hostVars ==
  <<app, mainWindow, wins, childWindows, windowCounter, last, flow, windowVars>>

ControllerInit ==
  /\ HostIdle
  /\ child = ChildIdle
  /\ wire = WireIdle
  /\ logger = LoggerIdle
  /\ fetchTimeout = <<>>
  /\ boundary = BoundaryMounted(Undefined, 1)
  /\ dogApi = DogApiIdle
  /\ mainApp = MainAppIdle("ok")
  /\ ipc = IpcIdle
  /\ errorState = ClearedErrorState
  /\ \E n \in RetryLimits : hook = HookIdle(n)
  /\ lastCall = NoCall

\* handleError(value, context) is called
HandleErrorCall(value, context) ==
  /\ errorState' = handleError(errorState, value, context)
  /\ lastCall' = [NoCall EXCEPT !.op = "handleError",
                                !.threw = createAppError(value, context) = ClassifierThrows]
  /\ UNCHANGED <<hook, dogApi, mainApp, ipc, hostVars, childVars>>

\* clearError() is called
ClearErrorCall ==
  /\ errorState' = clearError(errorState)
  /\ lastCall' = [NoCall EXCEPT !.op = "clearError"]
  /\ UNCHANGED <<hook, dogApi, mainApp, ipc, hostVars, childVars>>

\* retry(operation) is called through the callback of the last render, up
\* to the point where it awaits the operation
RetryCall ==
  /\ hook.calls < MaxRetryCalls
  /\ IF RetryRefused(hook.rendered, hook.maxRetries)
     THEN /\ lastCall' = [NoCall EXCEPT !.op = "retry", !.before = errorState]
          /\ UNCHANGED <<errorState, hook>>
     ELSE /\ errorState' = CountRetry(errorState, hook.calls + 1)
          /\ hook' = [hook EXCEPT !.pending = @ + 1, !.calls = @ + 1]
          /\ lastCall' = [NoCall EXCEPT !.op = "retry", !.before = errorState,
                                        !.invoked = TRUE]
  /\ UNCHANGED <<dogApi, mainApp, ipc, hostVars, childVars>>

\* A retried operation succeeds: clearError()
RetryOperationResolved ==
  /\ hook.pending > 0
  /\ errorState' = clearError(errorState)
  /\ hook' = [hook EXCEPT !.pending = @ - 1]
  /\ lastCall' = [NoCall EXCEPT !.op = "retry-resolved"]
  /\ UNCHANGED <<dogApi, mainApp, ipc, hostVars, childVars>>

\* A retried operation fails: handleError(retryError, 'retry-operation')
RetryOperationRejected(value) ==
  /\ hook.pending > 0
  /\ errorState' = handleError(errorState, value, Str("retry-operation"))
  /\ hook' = [hook EXCEPT !.pending = @ - 1]
  /\ lastCall' = [NoCall EXCEPT !.op = "retry-rejected", !.value = value,
                                !.threw = createAppError(value, Undefined) = ClassifierThrows]
  /\ UNCHANGED <<dogApi, mainApp, ipc, hostVars, childVars>>

\* The view renders: its callbacks capture the Error State of this moment
Render ==
  /\ hook.rendered # Rendered(errorState)
  /\ hook' = [hook EXCEPT !.rendered = Rendered(errorState)]
  /\ UNCHANGED <<errorState, lastCall, dogApi, mainApp, ipc, hostVars, childVars>>

ControllerNext ==
  \/ \E value \in RejectionInputs : HandleErrorCall(value, Str("ctx"))
  \/ ClearErrorCall
  \/ RetryCall
  \/ RetryOperationResolved
  \/ \E value \in RejectionInputs : RetryOperationRejected(value)
  \/ Render

ControllerSpec == ControllerInit /\ [][ControllerNext]_vars

\* The Error Classifier on one value and context: handleError is called once
ClassifierInit ==
  /\ HostIdle
  /\ child = ChildIdle
  /\ wire = WireIdle
  /\ logger = LoggerIdle
  /\ fetchTimeout = <<>>
  /\ boundary = BoundaryMounted(Undefined, 1)
  /\ dogApi = DogApiIdle
  /\ mainApp = MainAppIdle("ok")
  /\ ipc = IpcIdle
  /\ errorState = ClearedErrorState
  /\ hook = HookIdle(3)
  /\ \E value \in ClassifierInputs, context \in ContextInputs :
       lastCall = [NoCall EXCEPT !.op = "input", !.value = value,
                                 !.context = context]

Classify ==
  /\ lastCall.op = "input"
  /\ errorState' = handleError(errorState, lastCall.value, lastCall.context)
  /\ lastCall' = [lastCall EXCEPT !.op = "handleError",
                     !.threw = createAppError(lastCall.value, lastCall.context)
                                 = ClassifierThrows]
  /\ UNCHANGED <<hook, dogApi, mainApp, ipc, hostVars, childVars>>

ClassifierNext == Classify

ClassifierSpec == ClassifierInit /\ [][ClassifierNext]_vars

---------------------------------------------------------------------------
(* The Remote Image Fetch Unit in a mounted view                           *)

StatusLines ==
  { <<200, "OK">>, <<299, "">>, <<199, "">>, <<300, "Multiple Choices">>,
    <<404, "Not Found">>, <<500, "Internal Server Error">> }

ContentTypes ==
  { Null, Str(""), Str("text/html"), Str("application/json"),
    Str("application/json; charset=utf-8") }

DogUrl == "https://images.dog.ceo/breeds/hound/n1.jpg"

Bodies ==
  { Body(k, Undefined, Undefined) :
      k \in {"null", "string", "number", "boolean", "array", "invalid"} }
    \cup { Body("object", m, st) :
             m \in {Undefined, Null, Str(""), Num(1), Str(DogUrl)},
             st \in {Undefined, Str(""), Num(200), Str("success")} }

\* Responses: every status line, header and body, each with the others
\* passing and with the others failing
ResponseInputs ==
  LET Plain == { Body("null", Undefined, Undefined),
                 Body("object", Undefined, Undefined),
                 Body("object", Str(DogUrl), Str("success")) }
  IN { Response(l[1], l[2], ct, b) :
         l \in StatusLines, ct \in {Null, Str("text/html"), Str("application/json")},
         b \in Plain }
       \cup { Response(200, "OK", ct, b) : ct \in ContentTypes, b \in Plain }
       \cup { Response(200, "OK", Str("application/json"), b) : b \in Bodies }

\* Values fetch() rejects with
FetchRejections ==
  { NativeError("AbortError", "The operation was aborted."),
    NativeError("AbortError", "Failed to fetch"),
    NativeError("TypeError", "Failed to fetch"),
    NativeError("Error", "TypeError: Failed to fetch"),
    NativeError("Error", "Network down"),
    StringValue("Failed to fetch"),
    ObjectValue(Undefined, Str("AbortError"), Str("Failed to fetch")),
    NullValue, UndefinedValue }

FetchOutcomes ==
  { Responded(r) : r \in ResponseInputs } \cup { Rejected(v) : v \in FetchRejections }

FetchInit ==
  /\ HostIdle
  /\ RendererInit

\* What the last settled request was given and what the unit held before
FetchObserved(outcome, via) ==
  [op |-> "fetch", outcome |-> outcome, data |-> dogApi.data, via |-> via]

\* The view mounts: the effect calls fetchDogImage
Mount ==
  /\ ~dogApi.mounted
  /\ dogApi.returned = 0
  /\ dogApi' = [FetchStarted(dogApi) EXCEPT !.mounted = TRUE, !.fetching = @ + 1]
  /\ lastCall' = [NoCall EXCEPT !.op = "mount"]
  /\ UNCHANGED <<errorState, hook, mainApp, ipc, hostVars, childVars>>

\* retry() of the unit is called through the callback of the last render:
\* retryWithErrorHandler(fetchDogImage), up to await fetch(...)
DogApiRetry ==
  /\ hook.calls < MaxRetryCalls
  /\ dogApi.returned = 0
  /\ IF RetryRefused(hook.rendered, hook.maxRetries)
     THEN /\ lastCall' = [NoCall EXCEPT !.op = "retry", !.before = errorState]
          /\ UNCHANGED <<errorState, hook, dogApi>>
     ELSE /\ errorState' = CountRetry(errorState, hook.calls + 1)
          /\ hook' = [hook EXCEPT !.calls = @ + 1]
          /\ dogApi' = [FetchStarted(dogApi) EXCEPT !.retrying = @ + 1]
          /\ lastCall' = [NoCall EXCEPT !.op = "retry", !.before = errorState,
                                        !.invoked = TRUE]
  /\ UNCHANGED <<mainApp, ipc, hostVars, childVars>>

\* The request of the effect settles: fetchDogImage runs to its end
FetchSettle(outcome) ==
  /\ dogApi.fetching > 0
  /\ dogApi.returned = 0
  /\ LET settled == FetchSettled(dogApi, errorState, outcome)
     IN /\ dogApi' = [settled.api EXCEPT !.fetching = @ - 1,
                        !.failedRetries = IF settled.failed THEN @ ELSE 0]
        /\ errorState' = settled.errorState
  /\ lastCall' = FetchObserved(outcome, "effect")
  /\ UNCHANGED <<hook, mainApp, ipc, hostVars, childVars>>

\* A request of retry() settles: fetchDogImage runs to its end and returns
\* to retry()
RetryFetchSettle(outcome) ==
  /\ dogApi.retrying > 0
  /\ dogApi.returned = 0
  /\ LET settled == FetchSettled(dogApi, errorState, outcome)
     IN /\ dogApi' = [settled.api EXCEPT !.retrying = @ - 1, !.returned = @ + 1,
                        !.failedRetries = IF settled.failed THEN @ + 1 ELSE 0]
        /\ errorState' = settled.errorState
  /\ lastCall' = FetchObserved(outcome, "retry")
  /\ UNCHANGED <<hook, mainApp, ipc, hostVars, childVars>>

\* retry() of the Retry Controller resumes after await retryFn(): clearError()
RetryReturned ==
  /\ dogApi.returned > 0
  /\ errorState' = clearError(errorState)
  /\ dogApi' = [dogApi EXCEPT !.returned = @ - 1]
  /\ lastCall' = [NoCall EXCEPT !.op = "retry-resolved"]
  /\ UNCHANGED <<hook, mainApp, ipc, hostVars, childVars>>

\* The view renders
DogApiRender ==
  /\ dogApi.returned = 0
  /\ Render

\* What the unit returns to the view on a render
error == dogApi.error \/ errorState.hasError
canRetry == errorState.retryCount < 3

\* What the requests of repeated retries settle with
RetryOutcomes ==
  { Responded(Response(200, "OK", Str("application/json"),
                       Body("object", Str(DogUrl), Str("success")))),
    Responded(Response(500, "Internal Server Error", Str("text/html"),
                       Body("invalid", Undefined, Undefined))),
    Rejected(NativeError("TypeError", "Failed to fetch")),
    Rejected(NativeError("AbortError", "The operation was aborted.")) }

FetchNext ==
  \/ Mount
  \/ DogApiRetry
  \/ \E outcome \in RetryOutcomes : FetchSettle(outcome)
  \/ \E outcome \in RetryOutcomes : RetryFetchSettle(outcome)
  \/ RetryReturned
  \/ DogApiRender

FetchSpec == FetchInit /\ [][FetchNext]_vars

\* The unit on every response and failure, with few retries
ValidationNext ==
  \/ Mount
  \/ hook.calls < MaxValidationRetries /\ DogApiRetry
  \/ \E outcome \in FetchOutcomes : FetchSettle(outcome)
  \/ \E outcome \in FetchOutcomes : RetryFetchSettle(outcome)
  \/ RetryReturned
  \/ DogApiRender

ValidationSpec == FetchInit /\ [][ValidationNext]_vars

---------------------------------------------------------------------------
(* The Main View under clicks, bridge responses and time                   *)

\* What the bridge call of an action settles with
BridgeSettlements ==
  { BridgeResolved(Envelope(TRUE, Undefined)),
    BridgeResolved(Envelope(FALSE, Str("Window limit reached"))),
    BridgeResolved(Envelope(FALSE, Str(""))),
    BridgeResolved(Envelope(FALSE, Undefined)),
    BridgeResolved(AbsentResponse),
    BridgeRejected(NativeError("Error", "IPC down")),
    BridgeRejected(StringValue("closed")) }

\* What a bridge call settles with after its action has timed out
LateSettlements ==
  { BridgeResolved(Envelope(TRUE, Undefined)),
    BridgeResolved(Envelope(FALSE, Str("Window limit reached"))),
    BridgeRejected(NativeError("Error", "IPC down")) }

\* The steps by which time passes, in ms
TickSteps == {2500, 5000}

ViewInit ==
  /\ HostIdle
  /\ child = ChildIdle
  /\ wire = WireIdle
  /\ logger = LoggerIdle
  /\ fetchTimeout = <<>>
  /\ boundary = BoundaryMounted(Undefined, 1)
  /\ errorState = ClearedErrorState
  /\ hook = HookIdle(3)
  /\ lastCall = NoCall
  /\ dogApi = DogApiIdle
  /\ ipc = IpcIdle
  /\ \E bridge \in {"ok", "incomplete", "absent"} : mainApp = MainAppIdle(bridge)

\* What a step of an action was given and what the view showed before it
ViewObserved(op, key, by, elapsed, settled) ==
  [op |-> op, key |-> key, by |-> by, elapsed |-> elapsed, settled |-> settled,
   buttons |-> [b \in ButtonKeys |->
                  [disabled |-> isButtonDisabled(b), label |-> ButtonLabel(b)]],
   retryCount |-> mainApp.retryCount]

\* A button that is not disabled is clicked: handleOpenChildWindow(key) or
\* handleTerminateAllWindows(), up to the race, or to the end when a check
\* of the bridge fails
Click(key) ==
  /\ mainApp.started < MaxActions
  /\ ~isButtonDisabled(key)
  /\ LET id == mainApp.started + 1
         started == [ActionStarted(mainApp, key) EXCEPT !.started = id]
         err == BridgeCheck(mainApp, key)
     IN IF err # NotThrown
        THEN /\ mainApp' = ActionFinished(started, key, err)
             /\ errorState' = handleError(errorState, err, ActionContext(key))
             /\ lastCall' = ViewObserved("finish", key, "check", 0, BridgeRejected(err))
        ELSE /\ mainApp' =
                  [started EXCEPT !.actions =
                     [i \in DOMAIN @ \cup {id} |->
                        IF i = id THEN [key |-> key, elapsed |-> 0] ELSE @[i]]]
             /\ errorState' = errorState
             /\ lastCall' = ViewObserved("start", key, "click", 0,
                                         BridgeResolved(AbsentResponse))
  /\ UNCHANGED <<hook, dogApi, ipc, hostVars, childVars>>

\* The race of an action settles: the handler runs to its final step
RaceSettled(id, by, settled) ==
  LET action == mainApp.actions[id]
      err == ActionThrows(settled)
      finished == PromiseRace(mainApp, FALSE, action.key, err)
  IN /\ mainApp' = [finished EXCEPT
                      !.actions = [i \in DOMAIN @ \ {id} |-> @[i]],
                      !.late = IF by = "timer"
                               THEN [i \in DOMAIN @ \cup {id} |->
                                       IF i = id THEN action.key ELSE @[i]]
                               ELSE @]
     /\ errorState' = IF err = NotThrown THEN errorState
                      ELSE handleError(errorState, err, ActionContext(action.key))
     /\ lastCall' = ViewObserved("finish", action.key, by, action.elapsed, settled)
     /\ UNCHANGED <<hook, dogApi, ipc, hostVars, childVars>>

\* The bridge call of an action settles before its timer
BridgeSettles(id, settled) ==
  /\ id \in DOMAIN mainApp.actions
  /\ RaceSettled(id, "bridge", settled)

\* The timer of an action is due
TimerFires(id) ==
  /\ id \in DOMAIN mainApp.actions
  /\ TimeLeft(mainApp.actions[id]) = 0
  /\ RaceSettled(id, "timer",
                 BridgeRejected(NativeError("Error", "IPC operation timed out")))

\* The bridge call of an action settles after its timer has won the race
LateBridgeSettles(id, settled) ==
  /\ id \in DOMAIN mainApp.late
  /\ LET key == mainApp.late[id]
         raced == PromiseRace(mainApp, TRUE, key, ActionThrows(settled))
     IN /\ mainApp' = [raced EXCEPT !.late = [i \in DOMAIN @ \ {id} |-> @[i]]]
        /\ lastCall' = ViewObserved("late", key, "bridge", IpcTimeoutMs, settled)
  /\ UNCHANGED <<errorState, hook, dogApi, ipc, hostVars, childVars>>

\* Time passes, no further than the next timer that is due
Tick(ms) ==
  /\ DOMAIN mainApp.actions # {}
  /\ \A id \in DOMAIN mainApp.actions : ms <= TimeLeft(mainApp.actions[id])
  /\ mainApp' = [mainApp EXCEPT !.actions =
                   [id \in DOMAIN @ |-> [@[id] EXCEPT !.elapsed = @ + ms]]]
  /\ lastCall' = [NoCall EXCEPT !.op = "tick"]
  /\ UNCHANGED <<errorState, hook, dogApi, ipc, hostVars, childVars>>

ViewNext ==
  \/ \E key \in ButtonKeys : Click(key)
  \/ \E id \in 1..MaxActions + 1, settled \in BridgeSettlements : BridgeSettles(id, settled)
  \/ \E id \in 1..MaxActions + 1 : TimerFires(id)
  \/ \E id \in 1..MaxActions + 1, settled \in LateSettlements :
       LateBridgeSettles(id, settled)
  \/ \E ms \in TickSteps : Tick(ms)

ViewSpec == ViewInit /\ [][ViewNext]_vars

---------------------------------------------------------------------------
(* The Main-Window Bridge under calls, replies of the Host and delays      *)

\* The arguments of openChildWindow
BridgeTypeInputs == {Str("child1"), Str(""), Undefined, Num(1)}

\* What ipcRenderer.invoke resolves with and rejects with
InvokeResults ==
  { Envelope(TRUE, Undefined), Envelope(FALSE, Str("Window limit reached")),
    AbsentResponse }
InvokeFailures ==
  { NativeError("Error", "Error invoking remote method"),
    NativeError("Error", "No handler registered"),
    StringValue("closed") }

BridgeInit ==
  /\ HostIdle
  /\ RendererInit

\* The bridge with call id changed to call, and the 'ipc-error' message of
\* the call when its helper has raised
BridgeStep(id, call) ==
  /\ ipc' = [ipc EXCEPT
       !.calls = [i \in DOMAIN @ \cup {id} |-> IF i = id THEN call ELSE @[i]],
       !.started = IF id \in DOMAIN ipc.calls THEN @ ELSE id,
       !.sent = IF call.helper.k = "raised"
                THEN IpcErrorSent(@, id, Channel(call.method),
                                  BridgeErrorMessage(call.helper.value))
                ELSE @]
  /\ UNCHANGED <<errorState, hook, lastCall, dogApi, mainApp, hostVars, childVars>>

\* A method of the bridge is called
BridgeCall(method, type) ==
  /\ ipc.started < MaxBridgeCalls
  /\ BridgeStep(ipc.started + 1,
                IF InvalidWindowType(method, type)
                THEN BridgeCallInvalid(method, type)
                ELSE BridgeCallStarted(method, type))

\* The invoke of a call resolves
InvokeResolves(id, value) ==
  /\ id \in DOMAIN ipc.calls
  /\ ipc.calls[id].phase = "invoking"
  /\ BridgeStep(id, AttemptResolved(ipc.calls[id], value))

\* The invoke of a call rejects
InvokeRejects(id, failure) ==
  /\ id \in DOMAIN ipc.calls
  /\ ipc.calls[id].phase = "invoking"
  /\ BridgeStep(id, AttemptRejected(ipc.calls[id], failure))

\* The delay of a call has passed
DelayElapsed(id) ==
  /\ id \in DOMAIN ipc.calls
  /\ ipc.calls[id].phase = "waiting"
  /\ BridgeStep(id, DelayPassed(ipc.calls[id]))

BridgeNext ==
  \/ \E type \in BridgeTypeInputs : BridgeCall("openChildWindow", type)
  \/ BridgeCall("terminateAllWindows", Undefined)
  \/ BridgeCall("getActiveWindowCount", Undefined)
  \/ \E id \in 1..MaxBridgeCalls + 1, value \in InvokeResults : InvokeResolves(id, value)
  \/ \E id \in 1..MaxBridgeCalls + 1, failure \in InvokeFailures : InvokeRejects(id, failure)
  \/ \E id \in 1..MaxBridgeCalls + 1 : DelayElapsed(id)

BridgeSpec == BridgeInit /\ [][BridgeNext]_vars

---------------------------------------------------------------------------
(* The Window Manager's ids over its lifetime                              *)

\* The types the calls pass: two kinds and a value that is rejected
IdTypeInputs == {Str("child1"), Str("child2"), Undefined}

\* A createChildWindow call, with the id it generated recorded
CreateChildWindowIssuing(type, dimensions, focusThrows, ctor) ==
  /\ CreateChildWindowCall(type, dimensions, focusThrows, ctor, MaxIdCalls)
  /\ issued' = Append(issued, WindowId(type, windowCounter'))
  /\ UNCHANGED showTimeout

IdNext ==
  \/ /\ AppReady
     /\ UNCHANGED <<rendererVars, windowVars>>
  \/ /\ windowCounter < MaxIdCalls
     /\ \E type \in IdTypeInputs :
          \E focusThrows \in FocusOutcomes(type, Dims(Num(300), Num(300))) :
            \E ctor \in CtorOutcomes(type, Dims(Num(300), Num(300)), focusThrows) :
              CreateChildWindowIssuing(type, Dims(Num(300), Num(300)),
                                       focusThrows, ctor)
     /\ UNCHANGED rendererVars
  \/ /\ \E ci \in CloseInputs : CloseAllChildWindowsCall(ci[1], ci[2])
     /\ UNCHANGED <<rendererVars, windowVars>>
  \/ /\ GetActiveWindowCountCall
     /\ UNCHANGED <<rendererVars, windowVars>>
  \/ /\ WindowEvents
     /\ UNCHANGED <<rendererVars, windowVars>>

IdSpec == Init /\ [][IdNext]_vars

---------------------------------------------------------------------------
(* The Host while windows are opened and closed and the application quits  *)

ShutdownNext ==
  \/ /\ AppReady
     /\ UNCHANGED <<rendererVars, windowVars>>
  \/ /\ windowCounter < MaxShutdownCalls
     /\ \E k \in Kinds :
          \E focusThrows \in RequestFocusOutcomes(ObjectPayload(Str(k))) :
            \E ctor \in RequestCtorOutcomes(ObjectPayload(Str(k)), focusThrows) :
              OpenChildWindow(ObjectPayload(Str(k)), focusThrows, ctor,
                              MaxShutdownCalls)
     /\ UNCHANGED <<rendererVars, windowVars>>
  \/ /\ WindowEvents
     /\ UNCHANGED <<rendererVars, windowVars>>
  \/ /\ \E ci \in CloseInputs : MainWindowClosed(ci[1], ci[2])
     /\ UNCHANGED <<rendererVars, windowVars>>
  \/ /\ Activate
     /\ UNCHANGED <<rendererVars, windowVars>>
  \/ /\ \E ci \in CloseInputs : BeforeQuit(ci[1], ci[2])
     /\ UNCHANGED <<rendererVars, windowVars>>

ShutdownSpec == Init /\ [][ShutdownNext]_vars

---------------------------------------------------------------------------
(* The Child View under what its hook returns and the events of its image  *)

\* What useDogApi returns to the view
DogApiReturns ==
  [data : {NullData, Body("object", Str(DogUrl), Str("success")),
           Body("object", Str(DogUrl), Str("error")),
           Body("object", Str(""), Str(""))},
   loading : BOOLEAN,
   error : BOOLEAN,
   errorDetails : {NoErrorDetails,
                   ApiError(408, "Request Timeout", "Request timed out after 10 seconds"),
                   ApiError(500, "Internal Server Error", "")},
   canRetry : BOOLEAN]

ChildViewInit ==
  /\ HostIdle
  /\ RendererInit

\* The view's state changes and it renders again
ChildStep(props, imageError) ==
  /\ child' = ChildView(props, imageError)
  /\ UNCHANGED <<mainVars, wire, logger, fetchTimeout, boundary, hostVars>>

\* The hook's state changes: the view renders with what it returns now
HookReturns(props) ==
  /\ props # child.props
  /\ ChildStep(props, child.imageError)

\* onError of the img element: handleImageError
ImageErrorEvent ==
  /\ child.rendered.img # Undefined
  /\ ChildStep(child.props, TRUE)

\* onLoad of the img element: handleImageLoad
ImageLoadEvent ==
  /\ child.rendered.img # Undefined
  /\ ChildStep(child.props, FALSE)

\* A click on 'Try Again' or 'Reload Image': handleRetry, up to the render
\* with what the hook returns after retry() was called
HandleRetryClick(props) ==
  /\ child.rendered.buttons # {}
  /\ ChildStep(props, FALSE)

ChildViewNext ==
  \/ \E props \in DogApiReturns : HookReturns(props)
  \/ ImageErrorEvent
  \/ ImageLoadEvent
  \/ \E props \in DogApiReturns : HandleRetryClick(props)

ChildViewSpec == ChildViewInit /\ [][ChildViewNext]_vars

---------------------------------------------------------------------------
(* The two views calling whatever method names they choose                 *)

\* The names a view can try on window.electronAPI
MethodNames == BridgeMethods \cup {"log", "reportError", "getWindowInfo"}

IsolationInit ==
  /\ HostIdle
  /\ RendererInit

\* A view calls a method of window.electronAPI by name
ViewCalls(view, method, outcome) ==
  /\ wire' = [sent |-> wire.sent \cup CallSends(view, method, outcome),
              view |-> view, method |-> method,
              called |-> method \in Exposed(view)]
  /\ UNCHANGED <<mainVars, child, logger, fetchTimeout, boundary, hostVars>>

\* An uncaught error or an unhandled rejection in a child window: the
\* preload's listeners report it
ChildWindowError ==
  /\ wire' = [sent |-> wire.sent \cup {[from |-> "child", channel |-> "child-error"]},
              view |-> "child", method |-> "none", called |-> FALSE]
  /\ UNCHANGED <<mainVars, child, logger, fetchTimeout, boundary, hostVars>>

IsolationNext ==
  \/ \E method \in MethodNames : \E outcome \in CallOutcomes(method) :
       ViewCalls("main", method, outcome)
  \/ \E method \in MethodNames : \E outcome \in CallOutcomes(method) :
       ViewCalls("child", method, outcome)
  \/ ChildWindowError

IsolationSpec == IsolationInit /\ [][IsolationNext]_vars

---------------------------------------------------------------------------
(* The Logger under calls of createLogger and Logger.getInstance           *)

\* The tags the callers pass: createLogger('child1'), createLogger()
LoggerTags == {Undefined} \cup {Str(k) : k \in Kinds}

LoggerInit ==
  /\ HostIdle
  /\ RendererInit

\* createLogger(windowType) or Logger.getInstance(windowType), with the
\* object the call returned
LoggerCall(via, windowType) ==
  /\ Len(logger.calls) < MaxLoggerCalls
  /\ logger' = LET r == getInstance(logger, windowType) IN
               [r EXCEPT !.calls = Append(@, [via |-> via, windowType |-> windowType,
                                              returned |-> r.instance.id])]
  /\ UNCHANGED <<mainVars, child, wire, fetchTimeout, boundary, hostVars>>

LoggerNext ==
  \/ \E windowType \in LoggerTags : LoggerCall("createLogger", windowType)
  \/ \E windowType \in LoggerTags : LoggerCall("getInstance", windowType)

LoggerSpec == LoggerInit /\ [][LoggerNext]_vars

---------------------------------------------------------------------------
(* The child windows' watchdogs, 'ready-to-show' events and time           *)

\* The steps in which time passes, ms
ShowTicks == {2500, 5000}

\* A createChildWindow call; a window it constructed has its watchdog
\* armed and its listener registered
CreateChildWindowArming(type, dimensions, focusThrows, ctor) ==
  /\ CreateChildWindowCall(type, dimensions, focusThrows, ctor, MaxShowCalls)
  /\ showTimeout' = IF Len(wins') > Len(wins) THEN Append(showTimeout, ShowArmed)
                    ELSE showTimeout
  /\ UNCHANGED issued

\* The watchdog of window h fires
WatchdogFires(h, showOutcome) ==
  /\ showTimeout[h].timer = "armed"
  /\ showTimeout[h].age = ShowTimeoutMs
  /\ showTimeout' = [showTimeout EXCEPT
       ![h] = ShowTimeoutCallback(@, IsDestroyed(wins, h), showOutcome)]
  /\ last' = [NoLast EXCEPT !.op = "show-timeout", !.window = h]
  /\ UNCHANGED <<app, mainWindow, wins, childWindows, windowCounter, flow, issued>>

\* Window h emits 'ready-to-show'
ReadyToShow(h, showOutcome) ==
  /\ showTimeout[h].listening
  /\ ~IsDestroyed(wins, h)
  /\ showTimeout' = [showTimeout EXCEPT
       ![h] = ReadyToShowListener(@, IsDestroyed(wins, h), showOutcome)]
  /\ last' = [NoLast EXCEPT !.op = "ready-to-show", !.window = h]
  /\ UNCHANGED <<app, mainWindow, wins, childWindows, windowCounter, flow, issued>>

\* ms pass; no armed watchdog is overrun
ShowTick(ms) ==
  /\ showTimeout # <<>>
  /\ \A h \in DOMAIN showTimeout :
       /\ showTimeout[h].age + ms <= MaxShowAge
       /\ showTimeout[h].timer = "armed" => showTimeout[h].age + ms <= ShowTimeoutMs
  /\ showTimeout' = [h \in DOMAIN showTimeout |->
                       [showTimeout[h] EXCEPT !.age = @ + ms]]
  /\ last' = [NoLast EXCEPT !.op = "tick"]
  /\ UNCHANGED <<app, mainWindow, wins, childWindows, windowCounter, flow, issued>>

ShowNext ==
  \/ /\ AppReady
     /\ UNCHANGED <<rendererVars, windowVars>>
  \/ /\ windowCounter < MaxShowCalls
     /\ \E type \in {Str("child1"), Str("child2")} :
          \E focusThrows \in FocusOutcomes(type, Dims(Num(300), Num(300))) :
            \E ctor \in CtorOutcomes(type, Dims(Num(300), Num(300)), focusThrows) :
              CreateChildWindowArming(type, Dims(Num(300), Num(300)),
                                      focusThrows, ctor)
     /\ UNCHANGED rendererVars
  \/ /\ \E h \in Handles : WindowClosed(h)
     /\ UNCHANGED <<rendererVars, windowVars>>
  \/ /\ \E h \in Handles, showOutcome \in {"ok", "throws"} :
          WatchdogFires(h, showOutcome)
     /\ UNCHANGED rendererVars
  \/ /\ \E h \in Handles, showOutcome \in {"ok", "throws"} :
          ReadyToShow(h, showOutcome)
     /\ UNCHANGED rendererVars
  \/ /\ \E ms \in ShowTicks : ShowTick(ms)
     /\ UNCHANGED rendererVars

ShowSpec == Init /\ [][ShowNext]_vars

---------------------------------------------------------------------------
(* The fetch routine's requests, their timers and time                     *)

FetchTicks == {2500, 5000}

TimeoutInit ==
  /\ HostIdle
  /\ RendererInit

\* fetchDogImage is invoked, by the effect or by retry()
FetchInvoked ==
  /\ Len(fetchTimeout) < MaxFetchCalls
  /\ fetchTimeout' = Append(fetchTimeout, FetchArmed)
  /\ UNCHANGED <<mainVars, child, wire, logger, boundary, hostVars>>

\* The request of invocation id resolves with a response, whose status
\* and content type are accepted or not
FetchResolves(id, accepted) ==
  /\ fetchTimeout[id].fetch = "pending"
  /\ fetchTimeout' = [fetchTimeout EXCEPT
       ![id] = HeadersChecked(FetchResolvedClears(@), accepted)]
  /\ UNCHANGED <<mainVars, child, wire, logger, boundary, hostVars>>

\* The body of the response of invocation id has been received and parsed,
\* or reading it has failed
BodySettles(id, outcome) ==
  /\ fetchTimeout[id].body = "reading"
  /\ fetchTimeout' = [fetchTimeout EXCEPT ![id] = BodySettled(@, outcome)]
  /\ UNCHANGED <<mainVars, child, wire, logger, boundary, hostVars>>

\* The request of invocation id rejects on its own
FetchRejects(id, reason) ==
  /\ fetchTimeout[id].fetch = "pending"
  /\ fetchTimeout' = [fetchTimeout EXCEPT ![id] = FetchRejectedKeeps(@, reason)]
  /\ UNCHANGED <<mainVars, child, wire, logger, boundary, hostVars>>

\* The timer of invocation id fires
FetchTimerFires(id) ==
  /\ fetchTimeout[id].timer = "armed"
  /\ fetchTimeout[id].age = FetchTimeoutMs
  /\ fetchTimeout' = [fetchTimeout EXCEPT ![id] = AbortCallback(@)]
  /\ UNCHANGED <<mainVars, child, wire, logger, boundary, hostVars>>

\* ms pass; no armed timer is overrun
FetchTick(ms) ==
  /\ fetchTimeout # <<>>
  /\ \A id \in DOMAIN fetchTimeout :
       /\ fetchTimeout[id].age + ms <= MaxFetchAge
       /\ fetchTimeout[id].timer = "armed" =>
            fetchTimeout[id].age + ms <= FetchTimeoutMs
  /\ fetchTimeout' = [id \in DOMAIN fetchTimeout |->
                        [fetchTimeout[id] EXCEPT !.age = @ + ms]]
  /\ UNCHANGED <<mainVars, child, wire, logger, boundary, hostVars>>

TimeoutNext ==
  \/ FetchInvoked
  \/ \E id \in DOMAIN fetchTimeout, accepted \in BOOLEAN : FetchResolves(id, accepted)
  \/ \E id \in DOMAIN fetchTimeout, outcome \in {"received", "failed"} :
       BodySettles(id, outcome)
  \/ \E id \in DOMAIN fetchTimeout, reason \in {"TypeError", "AbortError"} :
       FetchRejects(id, reason)
  \/ \E id \in DOMAIN fetchTimeout : FetchTimerFires(id)
  \/ \E ms \in FetchTicks : FetchTick(ms)

TimeoutSpec == TimeoutInit /\ [][TimeoutNext]_vars

---------------------------------------------------------------------------
(* The Error Boundary under renders, failures of its children and remounts *)

MaxMounts == 3
MaxCaught == 2

\* The fallback props a caller passes: none, values that are falsy, a text
\* and an element
FallbackInputs ==
  {Undefined, Null, Str(""), Num(0), Str("Custom error"), Element("custom")}

\* What the children throw while they render
RenderErrors == {"E1", "E2"}

BoundaryInit ==
  /\ HostIdle
  /\ RendererInit

\* The parent renders the boundary with a fallback prop and nothing throws
BoundaryRenders(fallback) ==
  /\ boundary' = [boundary EXCEPT
                    !.fallback = fallback,
                    !.output = render(boundary.state, fallback),
                    !.rerendered = boundary.state.hasError]
  /\ UNCHANGED <<mainVars, child, wire, logger, fetchTimeout, hostVars>>

\* A child throws while it renders: getDerivedStateFromError, the render of
\* the fallback, componentDidCatch and the render its setState causes
ChildThrows(err) ==
  /\ ~boundary.state.hasError
  /\ boundary.caught < MaxCaught
  /\ LET state == componentDidCatch(getDerivedStateFromError(boundary.state, err), err)
     IN boundary' = [boundary EXCEPT
                       !.state = state,
                       !.output = render(state, boundary.fallback),
                       !.caught = @ + 1]
  /\ UNCHANGED <<mainVars, child, wire, logger, fetchTimeout, hostVars>>

\* The boundary is unmounted and mounted again: a new instance is constructed
BoundaryRemounts(fallback) ==
  /\ boundary.mounts < MaxMounts
  /\ boundary' = [BoundaryMounted(fallback, boundary.mounts + 1) EXCEPT
                    !.caught = boundary.caught]
  /\ UNCHANGED <<mainVars, child, wire, logger, fetchTimeout, hostVars>>

BoundaryNext ==
  \/ \E fallback \in FallbackInputs : BoundaryRenders(fallback)
  \/ \E err \in RenderErrors : ChildThrows(err)
  \/ \E fallback \in FallbackInputs : BoundaryRemounts(fallback)

BoundarySpec == BoundaryInit /\ [][BoundaryNext]_vars

---------------------------------------------------------------------------
(* Properties                                                              *)

\* The tracked windows of kind k that are live
LiveTracked(k) ==
  {h \in Tracked(childWindows) : wins[h].state = "live" /\ wins[h].windowType = k}

\* No tracked window's liveness check throws
NoFaultyTracked == \A h \in Tracked(childWindows) : wins[h].state # "faulty"

\* Arguments createChildWindow is documented to accept: a non-empty string
\* and an object with finite positive width and height
ValidArguments(type, dimensions) ==
  /\ type.t = "string" /\ type.s # ""
  /\ dimensions.t = "object"
  /\ \A v \in {dimensions.width, dimensions.height} :
       v.t = "number" /\ v.s = "" /\ v.n > 0

\* C1: createChildWindow with valid arguments, while the registry holds a
\* live window of that kind whose focus succeeds, returns that window, calls
\* focus on it, constructs nothing and leaves the registry as it is; if no
\* tracked window of the kind is live (the tracked ones report themselves
\* destroyed), a window is constructed and tracked. Stated for registries
\* in which no liveness check throws and for a constructor that succeeds.
C1_DedupByKind ==
  NoFaultyTracked =>
  \A type \in TypeInputs, dimensions \in DimInputs :
    ValidArguments(type, dimensions) =>
      IF LiveTracked(type.s) # {}
      THEN \A ctor \in {"ok", "Error", "other"} :
             LET r == createChildWindow(type, dimensions, FALSE, ctor) IN
             /\ ~r.threw
             /\ r.window \in LiveTracked(type.s)
             /\ r.focused = r.window
             /\ ~r.constructed
             /\ r.childWindows = childWindows
             /\ r.wins = wins
      ELSE LET r == createChildWindow(type, dimensions, FALSE, "ok") IN
           /\ ~r.threw
           /\ r.constructed
           /\ r.focused = 0
           /\ r.window \notin Handles
           /\ r.wins[r.window].state = "live"
           /\ r.wins[r.window].windowType = type.s
           /\ Tracked(r.childWindows) = Tracked(childWindows) \cup {r.window}

\* A second createChildWindow of a kind returned the live window of that kind
C1_Witness ==
  /\ last.op = "createChildWindow"
  /\ ~last.threw /\ ~last.constructed
  /\ last.focused # 0 /\ last.window = last.focused
  /\ wins[last.window].state = "live"

\* C2 as stated: the registry holds at most one live tracked entry per kind
C2_AtMostOneLivePerKind ==
  \A k \in Kinds : Cardinality(LiveTracked(k)) <= 1

\* C2: the registry holds at most one live tracked entry per kind that was
\* not constructed after a failed focus of a live window of that kind
C2_AtMostOneLivePerKindButFallbacks ==
  \A k \in Kinds : Cardinality({h \in LiveTracked(k) : ~wins[h].fallback}) <= 1

\* Two live tracked windows of one kind
C2_Witness ==
  \E k \in Kinds : \E h \in LiveTracked(k) :
    wins[h].fallback /\ \E g \in LiveTracked(k) : ~wins[g].fallback

\* The active count at each stage of the end-to-end flow
ExpectedCount == <<1, 2, 3, 0, 1>>

\* C3: from an empty registry, open-child-window for child1, child2, child3
\* brings the active count to 1, 2, 3; terminate-all-windows then succeeds
\* with closedCount 3 and the count is 0; a later open-child-window succeeds
\* and the count is 1; the primary window stays open. flow is the stage the
\* run has reached while nothing else touches the tracked windows and no
\* platform call throws.
C3_EndToEndFlow ==
  flow >= 0 =>
    /\ mainWindow = "open"
    /\ getActiveWindowCount(childWindows, wins).count
         = IF flow = 0 THEN 0 ELSE ExpectedCount[flow]
    /\ last.op = "get-active-window-count" =>
         last.reply = [success |-> TRUE,
                       count |-> IF flow = 0 THEN 0 ELSE ExpectedCount[flow]]
    /\ last.op = "terminate-all-windows" =>
         flow = 4 /\ last.reply = [success |-> TRUE, closedCount |-> 3]
    /\ last.op = "open-child-window" =>
         /\ flow \in {1, 2, 3, 5}
         /\ last.constructed
         /\ last.reply = [success |-> TRUE, windowId |-> last.window]

\* The count was asked after the open that followed the terminate
C3_Witness == flow = 5 /\ last.op = "get-active-window-count"

\* C4: closeAllChildWindows calls close exactly on the tracked windows that
\* are not destroyed when the sweep reaches them and returns the number of
\* them on which close did not throw; a throwing close does not stop the
\* sweep, and an empty registry gives 0. A window whose liveness check
\* throws is passed over like a destroyed one.
C4_SweepAccounting ==
  \A ci \in CloseInputs :
    LET closeOutcome == ci[1]
        kill == ci[2]
        r == closeAllChildWindows(closeOutcome, kill)
        reached == Closable \ (IF kill[1] # 0 THEN {kill[2]} ELSE {})
    IN /\ r.called = reached
       /\ r.closedCount = Cardinality({h \in reached : closeOutcome[h] # "throws"})
       /\ childWindows = <<>> => r.closedCount = 0

\* A sweep in which one close threw and a later or earlier one was counted
C4_Witness ==
  /\ last.op = "closeAllChildWindows"
  /\ last.count >= 1
  /\ last.count < Cardinality(last.called)

\* C5: after closeAllChildWindows the registry is empty and
\* getActiveWindowCount returns 0, whatever the close calls did
C5_RegistryEmptyAfterSweep ==
  last.op = "closeAllChildWindows" =>
    /\ childWindows = <<>>
    /\ getActiveWindowCount(childWindows, wins).count = 0

\* A sweep returned after a close that threw, its window still live
C5_Witness ==
  /\ last.op = "closeAllChildWindows"
  /\ Cardinality(last.called) > last.count
  /\ \E h \in last.called : wins[h].state = "live"

\* C6: getActiveWindowCount returns the number of tracked entries that are
\* live (a throwing liveness check counts as destroyed), leaves exactly the
\* live entries in the registry, in their order, and a second call returns
\* the same number and removes nothing
C6_CountAndCleanup ==
  LET live == {h \in Tracked(childWindows) : wins[h].state = "live"}
      r == getActiveWindowCount(childWindows, wins)
      again == getActiveWindowCount(r.childWindows, wins)
  IN /\ r.count = Cardinality(live)
     /\ r.childWindows = SelectSeq(childWindows, LAMBDA e : e.window \in live)
     /\ again.count = r.count
     /\ again.childWindows = r.childWindows

\* A count that removed a destroyed entry and kept a live one
C6_Witness ==
  /\ last.op = "getActiveWindowCount"
  /\ last.removed # {}
  /\ last.count >= 1

\* C7 as stated: the open-child-window handler answers a payload that is
\* absent or no object, a type that is missing, empty or no string, and a
\* type string other than child1, child2, child3 with the three messages, in
\* this order, with success=false and without calling createChildWindow
C7_PayloadChecks ==
  last.op = "open-child-window" =>
    LET data == last.data IN
    /\ data.t # "object" =>
         /\ last.reply = Failure(Str("Invalid request data: expected object with type property"))
         /\ ~last.calledManager
    /\ data.t = "object" /\ (data.type.t # "string" \/ data.type.s = "") =>
         /\ last.reply = Failure(Str("Invalid child window type: type must be a non-empty string"))
         /\ ~last.calledManager
    /\ data.t = "object" /\ data.type.t = "string"
         /\ data.type.s \notin {"", "child1", "child2", "child3"} =>
         /\ last.reply = Failure(Str("Invalid child window type: " \o data.type.s
                                     \o ". Valid types are: child1, child2, child3"))
         /\ ~last.calledManager

\* The requests the handlers answer
HandlerOps ==
  {"open-child-window", "terminate-all-windows", "get-active-window-count", "log"}

Preset ==
  [child1 |-> <<300, 300>>, child2 |-> <<500, 300>>, child3 |-> <<250, 200>>]

\* C9: a valid open-child-window request for kind k, on a registry with no
\* live window of kind k, constructs a window of the preset width and
\* height of k, tagged k and loaded with type=k, whatever other windows
\* exist. Stated for registries in which no liveness check throws and for
\* a constructor that succeeds.
C9_Presets ==
  \A k \in Kinds :
    app = "ready" /\ LiveTracked(k) = {} /\ NoFaultyTracked =>
      LET r == OpenChildWindowHandler(ObjectPayload(Str(k)), FALSE, "ok") IN
      /\ r.constructed
      /\ r.reply = [success |-> TRUE, windowId |-> r.window]
      /\ r.window \notin Handles
      /\ r.wins[r.window].width = Num(Preset[k][1])
      /\ r.wins[r.window].height = Num(Preset[k][2])
      /\ r.wins[r.window].windowType = k
      /\ r.wins[r.window].query = k

\* A request constructed a child3 window beside a live window of another kind
C9_Witness ==
  /\ last.op = "open-child-window"
  /\ last.constructed
  /\ wins[last.window].windowType = "child3"
  /\ wins[last.window].width = Num(250)
  /\ \E h \in Tracked(childWindows) :
       wins[h].state = "live" /\ wins[h].windowType # "child3"

\* Arguments createChildWindow is documented to reject
RejectedArguments(type, dimensions) ==
  \/ type.t # "string" \/ type.s = ""
  \/ dimensions.t # "object"
  \/ \E v \in {dimensions.width, dimensions.height} :
       \/ v.t # "number"
       \/ v.s \in {"NaN", "Infinity", "-Infinity"}
       \/ v.n <= 0

\* C10 as stated: createChildWindow raises an error for every dimensions
\* value whose width or height is missing, no number, NaN, not finite, zero
\* or negative, and for every kind that is empty or no string; no window
\* is constructed and the registry stays as it was
C10_RejectsBadArguments ==
  app = "ready" =>
    \A type \in TypeInputs, dimensions \in DimInputs :
      RejectedArguments(type, dimensions) =>
        LET r == createChildWindow(type, dimensions, FALSE, "ok") IN
        /\ r.threw
        /\ ~r.constructed
        /\ r.childWindows = childWindows
        /\ r.wins = wins

\* C11 as stated: once retryCount has reached the configured maximum, a
\* further retry(operation) call does not invoke the operation and leaves
\* the Error State as it was, so retryCount never passes the maximum
C11_RefusedAtMaximum ==
  /\ lastCall.op = "retry" /\ lastCall.before.retryCount >= hook.maxRetries =>
       ~lastCall.invoked /\ ~lastCall.threw /\ errorState = lastCall.before
  /\ errorState.retryCount <= hook.maxRetries

\* A property of an object that is there and is neither empty nor zero
Given(x) == x.t # "undefined" /\ x # Str("") /\ x # Num(0)

\* The JSON text of an object with the given code and name, and with an
\* empty message when withMessage holds
SerializationOf(code, name, withMessage) ==
  LET c == IF code = Str("E42") THEN <<"\"code\":\"E42\"">>
           ELSE IF code = Num(404) THEN <<"\"code\":404">> ELSE <<>>
      n == IF name = Str("Named") THEN <<"\"name\":\"Named\"">> ELSE <<>>
      m == IF withMessage THEN <<"\"message\":\"\"">> ELSE <<>>
      all == c \o n \o m
  IN CASE Len(all) = 0 -> "{}"
       [] Len(all) = 1 -> "{" \o all[1] \o "}"
       [] Len(all) = 2 -> "{" \o all[1] \o "," \o all[2] \o "}"
       [] OTHER -> "{" \o all[1] \o "," \o all[2] \o "," \o all[3] \o "}"

\* What the rules of the classifier give for value v
ClassifiedCode(v) ==
  CASE v.k = "Error" -> IF v.name = Str("") THEN Str("UnknownError") ELSE v.name
    [] v.k = "string" -> Str("StringError")
    [] v.k = "object" -> IF Given(v.code) THEN v.code
                         ELSE IF Given(v.name) THEN v.name
                         ELSE Str("ObjectError")
    [] OTHER -> Str("UnknownError")

ClassifiedMessage(v) ==
  CASE v.k \in {"Error", "string"} -> v.message
    [] v.k = "object" ->
         IF Given(v.message) THEN v.message
         ELSE Str(SerializationOf(v.code, v.name, v.message = Str("")))
    [] OTHER -> Str("An unknown error occurred")

C12_RetriesCappedAtThree ==
  /\ dogApi.failedRetries <= 3
  /\ dogApi.failedRetries = 3 /\ dogApi.retrying = 0 /\ dogApi.returned = 0 =>
       errorState.retryCount = 3 /\ ~canRetry

\* The first of the five checks a response fails, "none" when it passes
\* all; nonEmpty tells whether message and status must also be non-empty
FirstFailedCheck(response, nonEmpty) ==
  LET IsString(x) == x.t = "string" /\ (nonEmpty => x.s # "")
  IN IF response.status < 200 \/ response.status > 299 THEN "http"
     ELSE IF response.contentType.t # "string"
             \/ response.contentType.s \notin
                  {"application/json", "application/json; charset=utf-8"}
     THEN "content-type"
     ELSE IF response.body.k = "invalid" THEN "parse"
     ELSE IF response.body.k \notin {"object", "array"} THEN "object"
     ELSE IF ~IsString(response.body.message) THEN "message"
     ELSE IF ~IsString(response.body.status) THEN "status"
     ELSE "none"

\* What the unit holds right after a request settled with the response,
\* given the first check the response fails
ValidationOutcome(response, check) ==
  LET Fails(message) ==
        /\ errorState.error.message = Str(message)
        /\ dogApi.data = lastCall.data
  IN CASE check = "http" ->
            /\ dogApi.errorDetails =
                 ApiError(response.status, response.statusText,
                          "HTTP " \o ToString(response.status) \o ": "
                            \o response.statusText)
            /\ dogApi.data = lastCall.data
       [] check = "content-type" ->
            /\ dogApi.errorDetails =
                 ApiError(response.status, response.statusText,
                          "Invalid response content type")
            /\ dogApi.data = lastCall.data
       [] check = "parse" -> dogApi.error /\ dogApi.data = lastCall.data
       [] check = "object" -> Fails("Invalid response format: not an object")
       [] check = "message" ->
            Fails("Invalid response format: missing or invalid message field")
       [] check = "status" ->
            Fails("Invalid response format: missing or invalid status field")
       [] check = "none" -> dogApi.data = response.body /\ ~dogApi.error

\* C18 as stated: the five checks in order, message and status each only
\* required to be a string; the first failed check decides the errorDetails
\* or the failure message, and only a response passing all five is stored.
C18_ValidationOrder ==
  lastCall.op = "fetch" /\ lastCall.outcome.k = "response" =>
    ValidationOutcome(lastCall.outcome.response,
                      FirstFailedCheck(lastCall.outcome.response, FALSE))

\* C18 amended: as C18, with message and status each required to be a
\* non-empty string.
C18_ValidationOrderNonEmpty ==
  lastCall.op = "fetch" /\ lastCall.outcome.k = "response" =>
    ValidationOutcome(lastCall.outcome.response,
                      FirstFailedCheck(lastCall.outcome.response, TRUE))

C18_Witness ==
  /\ lastCall.op = "fetch"
  /\ lastCall.outcome =
       Responded(Response(200, "OK", Str("application/json"),
                          Body("object", Str(""), Str("success"))))
  /\ errorState.error.message =
       Str("Invalid response format: missing or invalid message field")
  /\ dogApi.error

C13_ButtonsIndependent ==
  /\ \A id \in DOMAIN mainApp.actions : isButtonDisabled(mainApp.actions[id].key)
  /\ lastCall.op \in {"start", "finish"} =>
       \A b \in ButtonKeys \ {lastCall.key} :
         /\ isButtonDisabled(b) = lastCall.buttons[b].disabled
         /\ ButtonLabel(b) = lastCall.buttons[b].label

\* C14: an action of the Main View is in flight for at most 5,000 ms after
\* its bridge call; it finishes with what the bridge call settled with when
\* that comes first and with the failure 'IPC operation timed out' at
\* 5,000 ms otherwise; whatever the outcome, the loading flag is cleared
\* when it finishes.
C14_FinishesWithinTimeout ==
  /\ \A id \in DOMAIN mainApp.actions : mainApp.actions[id].elapsed <= 5000
  /\ lastCall.op = "finish" =>
       /\ lastCall.elapsed <= 5000
       /\ mainApp.isLoading = "null"
       /\ lastCall.by = "timer" =>
            /\ lastCall.elapsed = 5000
            /\ mainApp.error =
                 (IF lastCall.key = "terminate"
                  THEN "Failed to terminate windows: IPC operation timed out"
                  ELSE "Failed to open " \o lastCall.key
                         \o " window: IPC operation timed out")
       /\ lastCall.by = "bridge" =>
            LET r == lastCall.settled
                succeeded == r.k = "resolved" /\ r.response.k = "envelope"
                               /\ r.response.success
            IN IF succeeded
               THEN mainApp.retryCount[lastCall.key] = 0
               ELSE /\ mainApp.error # "null"
                    /\ mainApp.retryCount[lastCall.key]
                         = lastCall.retryCount[lastCall.key] + 1

C14_Witness ==
  /\ lastCall.op = "finish"
  /\ lastCall.by = "timer"
  /\ lastCall.key = "child2"
  /\ lastCall.elapsed = 5000
  /\ mainApp.isLoading = "null"
  /\ mainApp.error = "Failed to open child2 window: IPC operation timed out"

\* C20: when an action of a key fails, the retry counter of that key grows
\* by exactly one; when it succeeds, the counter of that key becomes 0; the
\* counters of all other keys stay as they were, and starting an action
\* changes no counter.
C20_RetryCountersPerKey ==
  /\ lastCall.op = "finish" =>
       /\ mainApp.retryCount[lastCall.key] =
            (IF lastCall.settled.k = "resolved"
                  /\ lastCall.settled.response.k = "envelope"
                  /\ lastCall.settled.response.success
             THEN 0
             ELSE lastCall.retryCount[lastCall.key] + 1)
       /\ \A b \in ButtonKeys \ {lastCall.key} :
            mainApp.retryCount[b] = lastCall.retryCount[b]
  /\ lastCall.op = "start" => mainApp.retryCount = lastCall.retryCount

C20_Witness ==
  /\ lastCall.op = "finish"
  /\ lastCall.key = "child1"
  /\ lastCall.retryCount["child1"] = 0
  /\ lastCall.retryCount["terminate"] = 1
  /\ mainApp.retryCount["child1"] = 1
  /\ mainApp.retryCount["terminate"] = 1

\* The failure a call's helper raises for the failure of an attempt: the
\* failure itself when it is an error, an error with its text otherwise
RaisedFor(failure) ==
  IF failure.k = "Error" THEN failure
  ELSE [k |-> "Error", code |-> Undefined, name |-> Str("Error"),
        message |-> failure.message]

\* C15: the retry helper issues the request at most 3 times; it returns the
\* first result that resolves and makes no further attempt; it waits
\* 1,000 ms after each failed attempt except the last; after 3 failed
\* attempts it raises the failure of the last attempt.
C15_RetryHelper ==
  \A id \in DOMAIN ipc.calls :
    LET call == ipc.calls[id]
        n == Len(call.attempts)
        failed == Cardinality({i \in 1..n : call.attempts[i].k = "rejected"})
    IN /\ call.requests <= 3
       /\ \A i \in 1..n : call.attempts[i].k = "resolved" => i = n
       /\ call.phase = "invoking" =>
            call.requests = n + 1 /\ failed = n /\ call.waited = 1000 * n
       /\ call.phase = "waiting" =>
            call.requests = n /\ failed = n /\ n < 3 /\ call.waited = 1000 * (n - 1)
       /\ call.phase = "done" /\ call.requests > 0 =>
            /\ call.requests = n
            /\ IF call.attempts[n].k = "resolved"
               THEN /\ call.helper = [k |-> "returned", value |-> call.attempts[n].value]
                    /\ call.waited = 1000 * (n - 1)
               ELSE /\ n = 3
                    /\ call.waited = 2000
                    /\ call.helper =
                         [k |-> "raised", value |-> RaisedFor(call.attempts[3].value)]

C15_Witness ==
  \E id \in DOMAIN ipc.calls :
    /\ ipc.calls[id].phase = "done"
    /\ ipc.calls[id].requests = 3
    /\ ipc.calls[id].waited = 2000
    /\ ipc.calls[id].attempts[1].value = NativeError("Error", "No handler registered")
    /\ ipc.calls[id].attempts[3] = InvokeRejected(StringValue("closed"))
    /\ ipc.calls[id].helper = [k |-> "raised", value |-> NativeError("Error", "closed")]

\* The 'ipc-error' messages a call has sent
IpcErrorsOf(id) ==
  {i \in 1..Len(ipc.sent) : ipc.sent[i].call = id /\ ipc.sent[i].name = "ipc-error"}

\* C16: a call of openChildWindow, terminateAllWindows or
\* getActiveWindowCount ends resolved, never rejected; when all its attempts
\* failed it has sent exactly one 'ipc-error' message, naming its channel,
\* and resolves with {success: false, error}; when an attempt resolved, and
\* while it is under way, it has sent none.
C16_BridgeNeverRejects ==
  \A id \in DOMAIN ipc.calls :
    LET call == ipc.calls[id]
        n == Len(call.attempts)
        channel == CASE call.method = "openChildWindow" -> "open-child-window"
                     [] call.method = "terminateAllWindows" -> "terminate-all-windows"
                     [] call.method = "getActiveWindowCount" -> "get-active-window-count"
    IN IF call.phase = "done" /\ n = 3 /\ call.attempts[n].k = "rejected"
       THEN /\ Cardinality(IpcErrorsOf(id)) = 1
            /\ \A i \in IpcErrorsOf(id) :
                 /\ ipc.sent[i].channel = channel
                 /\ ipc.sent[i].error = call.attempts[n].value.message.s
            /\ call.resolved = [k |-> "envelope", success |-> FALSE,
                                error |-> call.attempts[n].value.message]
       ELSE /\ IpcErrorsOf(id) = {}
            /\ call.phase = "done" /\ n > 0 => call.resolved = call.attempts[n].value

C16_Witness ==
  /\ Len(ipc.sent) = 1
  /\ ipc.sent[1].channel = "terminate-all-windows"
  /\ \E id \in DOMAIN ipc.calls :
       /\ ipc.sent[1].call = id
       /\ ipc.calls[id].phase = "done"
       /\ ipc.calls[id].requests = 3
       /\ ipc.calls[id].method = "terminateAllWindows"
       /\ ipc.calls[id].resolved =
            Envelope(FALSE, Str("Error invoking remote method"))

\* C21: openChildWindow of the bridge called with a kind that is empty or
\* not a string has resolved at once with a failure envelope, and nothing
\* was sent to the Host for it: no invoke of 'open-child-window' and no
\* 'ipc-error' message.
C21_InvalidKindSendsNothing ==
  \A id \in DOMAIN ipc.calls :
    LET call == ipc.calls[id] IN
    (call.method = "openChildWindow"
       /\ (call.type.t # "string" \/ call.type.s = "")) =>
      /\ call.phase = "done"
      /\ call.resolved =
           Envelope(FALSE, Str("Invalid window type: must be a non-empty string"))
      /\ call.requests = 0
      /\ call.attempts = <<>>
      /\ IpcErrorsOf(id) = {}

C21_Witness ==
  \E id \in DOMAIN ipc.calls :
    /\ ipc.calls[id].method = "openChildWindow"
    /\ ipc.calls[id].type = Str("")
    /\ ipc.calls[id].phase = "done"
    /\ ipc.sent = <<>>

\* C22: the ids one Window Manager generates are pairwise distinct over its
\* whole lifetime: the counter has grown by one with each createChildWindow
\* call, whatever the call did, and no sweep, 'closed' event or count has
\* set it back, so the ids of the windows that exist and of the entries of
\* the registry are among the ids generated and differ from each other.
C22_IdsNeverReused ==
  /\ windowCounter = Len(issued)
  /\ \A i, j \in DOMAIN issued : i # j => issued[i] # issued[j]
  /\ \A i \in DOMAIN childWindows :
       /\ \E n \in DOMAIN issued : childWindows[i].windowId = issued[n]
       /\ \A j \in DOMAIN childWindows :
            i # j => childWindows[i].windowId # childWindows[j].windowId
  /\ \A h \in Handles :
       wins[h] # Gone =>
         /\ \E n \in DOMAIN issued : wins[h].windowId = issued[n]
         /\ \A g \in Handles :
              (g # h /\ wins[g] # Gone) => wins[g].windowId # wins[h].windowId

\* A window tracked under the second id after the first window was removed
C22_Witness ==
  /\ Len(wins) = 2
  /\ wins[1] = Gone
  /\ wins[2].state = "live"
  /\ wins[2].windowType = "child1"
  /\ issued = <<"child1-1", "child1-2">>
  /\ childWindows = <<[windowId |-> "child1-2", window |-> 2]>>

\* C23: when the primary window's 'closed' event has fired, and when
\* before-quit has fired with the manager constructed, closeAllChildWindows
\* has run: the registry is empty, and a window that was tracked is live
\* only if close() was called on it (it threw, or the window closes later).
\* A tracked window whose liveness check throws is passed over.
C23_ShutdownSweeps ==
  (last.op \in {"main-closed", "before-quit"} /\ app = "ready") =>
    /\ childWindows = <<>>
    /\ getActiveWindowCount(childWindows, wins).count = 0
    /\ \A h \in last.removed : wins[h].state = "live" => h \in last.called
    /\ \A h \in last.called : h \in last.removed

\* before-quit closed one of two tracked windows, the close of the other
\* is still to come
C23_Witness ==
  /\ last.op = "before-quit"
  /\ last.removed = {1, 2}
  /\ last.called = {1, 2}
  /\ wins[1].state = "destroyed"
  /\ wins[2].state = "live"

\* C24: what the Child View shows follows from loading, error, data,
\* canRetry and imageError in this order: while loading, the spinner and
\* nothing else; otherwise, with error set, data absent or a status other
\* than 'success', the 'Something wrong' panel, which has 'Try Again'
\* exactly when canRetry holds; otherwise, with imageError, the 'Failed to
\* load image' panel with 'Reload Image'; otherwise the image and
\* 'Status: <status>'.
C24_PanelPriority ==
  LET props == child.props
      r == child.rendered
  IN IF props.loading
     THEN /\ r.panel = "spinner"
          /\ r.texts = {"Loading dog image..."}
          /\ r.buttons = {}
          /\ r.img = Undefined
     ELSE IF props.error \/ props.data = NullData
                \/ props.data.status # Str("success")
     THEN /\ r.panel = "error"
          /\ "Something wrong" \in r.texts
          /\ r.buttons = (IF props.canRetry THEN {"Try Again"} ELSE {})
          /\ r.img = Undefined
     ELSE IF child.imageError
     THEN /\ r.panel = "image-error"
          /\ "Failed to load image" \in r.texts
          /\ r.buttons = {"Reload Image"}
          /\ r.img = Undefined
     ELSE /\ r.panel = "image"
          /\ r.img = props.data.message
          /\ ("Status: " \o props.data.status.s) \in r.texts
          /\ r.buttons = {}

\* The image failed to load, and the hook reports an error while it loads
\* again: the spinner is shown
C24_Witness ==
  /\ child.imageError
  /\ child.props.loading
  /\ child.props.error
  /\ child.props.data # NullData
  /\ child.rendered.panel = "spinner"

\* C25: the primary window's bridge exposes exactly openChildWindow,
\* terminateAllWindows and getActiveWindowCount, the child windows' bridge
\* exactly log, reportError and getWindowInfo, and the two sets are
\* disjoint: whatever the views have called, no message from a child view is
\* an open, terminate or count request and no message from the primary
\* view is a child-log or child-error notification.
C25_BridgesDisjoint ==
  /\ Exposed("main") = {"openChildWindow", "terminateAllWindows", "getActiveWindowCount"}
  /\ Exposed("child") = {"log", "reportError", "getWindowInfo"}
  /\ Exposed("main") \cap Exposed("child") = {}
  /\ \A m \in wire.sent :
       /\ m.from = "child" =>
            m.channel \notin {"open-child-window", "terminate-all-windows",
                              "get-active-window-count"}
       /\ m.from = "main" => m.channel \notin {"child-log", "child-error"}

\* Each view has tried a method of the other bridge after both have sent
\* everything they can
C25_Witness ==
  /\ wire.view = "child"
  /\ wire.method = "openChildWindow"
  /\ ~wire.called
  /\ Cardinality(wire.sent) = 6

\* C26: after any calls of createLogger and Logger.getInstance in one
\* process, every call has returned the same instance, one instance was
\* constructed, and its Window Kind tag is the tag of the first call
\* (absent if the first call passed none): no later call changed it.
C26_LoggerSingleton ==
  logger.calls # <<>> =>
    /\ logger.constructed = 1
    /\ logger.instance # NoInstance
    /\ \A i \in DOMAIN logger.calls : logger.calls[i].returned = logger.instance.id
    /\ logger.instance.windowType = logger.calls[1].windowType

\* An untagged first call, then calls with two different tags
C26_Witness ==
  /\ Len(logger.calls) = 3
  /\ logger.calls[1].windowType = Undefined
  /\ logger.calls[2] = [via |-> "createLogger", windowType |-> Str("child1"), returned |-> 1]
  /\ logger.calls[3].windowType = Str("child2")
  /\ logger.instance.windowType = Undefined

\* C27: when createChildWindow finds a live window of the requested kind
\* and focus() on it throws, the call does not fail and does not raise the
\* focus error: with a constructor that succeeds it constructs a window of
\* that kind, tracks it under the id just generated next to the entries
\* there were, and returns it.
C27_FocusFailureFallsThrough ==
  /\ \A type \in IdTypeInputs :
       LET existing == findWindowByType(childWindows, wins, type.s)
           r == createChildWindow(type, Dims(Num(300), Num(300)), TRUE, "ok")
       IN (/\ ValidArguments(type, Dims(Num(300), Num(300)))
           /\ ~existing.threw
           /\ existing.window # 0
           /\ wins[existing.window].state = "live") =>
            /\ ~r.threw
            /\ r.error = NoError
            /\ r.focused = existing.window
            /\ r.constructed
            /\ r.window = Len(wins) + 1
            /\ r.wins[r.window].state = "live"
            /\ r.wins[r.window].windowType = type.s
            /\ r.childWindows =
                 Append(childWindows,
                        [windowId |-> WindowId(type, windowCounter + 1),
                         window |-> r.window])
  /\ (/\ last.op = "createChildWindow"
      /\ last.focused # 0
      /\ last.window # last.focused
      /\ ~last.threw) =>
       /\ last.constructed
       /\ last.window = Len(wins)
       /\ childWindows # <<>>
       /\ childWindows[Len(childWindows)] =
            [windowId |-> issued[Len(issued)], window |-> last.window]
       /\ wins[last.window].windowType = wins[last.focused].windowType

\* A second window of the kind was constructed after focus() on the first
\* threw; both are tracked
C27_Witness ==
  /\ last.op = "createChildWindow"
  /\ last.focused = 1
  /\ last.window = 2
  /\ ~last.threw
  /\ Tracked(childWindows) = {1, 2}
  /\ wins[1].windowType = "child1"
  /\ wins[2].windowType = "child1"

C29_ShownAtMostOnce ==
  \A h \in DOMAIN showTimeout : Len(showTimeout[h].shown) <= 1

\* C30: the cancellation timer of an invocation of the fetch routine is
\* disarmed once the invocation's request has settled, resolved or
\* rejected: it is not armed for a settled request, and abort() is never
\* called on a request that has already finished.
C30_TimerDisarmedOnSettle ==
  \A id \in DOMAIN fetchTimeout :
    LET request == fetchTimeout[id] IN
    /\ request.fetch # "pending" => request.timer # "armed"
    /\ \A i \in DOMAIN request.aborts : request.aborts[i] = "pending"

\* C31: every invocation of the fetch routine completes and sets loading
\* to false: one whose response, body included, has not been received by
\* the 10,000 ms deadline is cancelled then and completes on the timeout
\* path, so no invocation is still loading after the deadline.
C31_CompletesByDeadline ==
  \A id \in DOMAIN fetchTimeout :
    fetchTimeout[id].age > FetchTimeoutMs => ~fetchTimeout[id].loading

\* Whether a settled request is one the unit accepts
Accepted(outcome) ==
  outcome.k = "response" /\ ValidateResponse(outcome.response).thrown = NotThrown

\* A step in which a request settles, and one in which retry() of the Retry
\* Controller resumes after a request that was accepted
RequestSettles ==
  dogApi'.fetching + dogApi'.retrying < dogApi.fetching + dogApi.retrying
RetryFinishesAccepted ==
  /\ dogApi'.returned < dogApi.returned
  /\ lastCall.op = "fetch"
  /\ Accepted(lastCall.outcome)

\* C32: a request that fails in any way (HTTP error status, bad content
\* type, invalid body shape, timeout, network failure, any other thrown
\* value) leaves the public error flag true, loading false and the data what
\* it was before; an accepted one leaves the data the validated response
\* and, once the enclosing retry (if any) has finished, the public error
\* flag false.
C32_FetchOutcomes ==
  [][ /\ RequestSettles /\ ~Accepted(lastCall'.outcome)
         => error' /\ ~dogApi'.loading /\ dogApi'.data = dogApi.data
      /\ RequestSettles /\ Accepted(lastCall'.outcome)
         => /\ dogApi'.data = ValidateResponse(lastCall'.outcome.response).data
            /\ ~dogApi'.loading
            /\ lastCall'.via = "effect" => ~error'
      /\ RetryFinishesAccepted => ~error' ]_vars

\* A request of retry() has failed and the data of an earlier accepted
\* request is still held, the public error flag is true and loading is false
C32_Witness ==
  /\ lastCall.op = "fetch"
  /\ lastCall.via = "retry"
  /\ ~Accepted(lastCall.outcome)
  /\ dogApi.data # NullData
  /\ dogApi.data = lastCall.data
  /\ error
  /\ ~dogApi.loading

C34_SuccessfulRetryClears ==
  lastCall.op = "retry-resolved" => errorState = ClearedErrorState

\* A retried operation has succeeded after a render that showed an error and
\* a counted attempt
C34_Witness ==
  /\ lastCall.op = "retry-resolved"
  /\ hook.rendered.hasError
  /\ hook.rendered.retryCount > 0
  /\ errorState = ClearedErrorState

\* A step in which the operation of the retry call made just before fails
\* with a value the classifier has an App Error for
AcceptedRetryFails ==
  /\ hook'.pending < hook.pending
  /\ lastCall'.op = "retry-rejected"
  /\ ~lastCall'.threw
  /\ lastCall.op = "retry"
  /\ lastCall.invoked

C36_CountWithinMaximum == errorState.retryCount <= hook.maxRetries

\* The sweep of closeAllChildWindows on the registry as it is, before the
\* registry is cleared, and the windows whose 'closed' event fired during it
SweptBeforeClear(closeOutcome, kill) ==
  Sweep(childWindows, 1,
        [closedCount |-> 0, called |-> {}, visited |-> <<>>,
         childWindows |-> childWindows, wins |-> wins],
        closeOutcome, kill)
ClosedDuring(st, closeOutcome, kill) ==
  {h \in st.called : closeOutcome[h] = "closed"}
    \cup (IF kill[1] \in st.called THEN {kill[2]} ELSE {})

\* C37: the 'closed' event of a tracked child window removes exactly the
\* registry entry of that window and leaves every other entry as it was;
\* so it does when it fires during a sweep of closeAllChildWindows, and the
\* sweep still visits every entry of its snapshot exactly once, in order.
C37_ClosedRemovesOwnEntry ==
  [][ /\ last'.op = "closed"
         => LET h == last'.window
            IN childWindows' = SelectSeq(childWindows, LAMBDA e : e.window # h)
      /\ \A ci \in CloseInputs :
           LET st == SweptBeforeClear(ci[1], ci[2])
               gone == ClosedDuring(st, ci[1], ci[2])
           IN /\ st.childWindows =
                   SelectSeq(childWindows, LAMBDA e : e.window \notin gone)
              /\ st.visited =
                   [i \in 1..Len(childWindows) |-> childWindows[i].windowId] ]_vars

\* The 'closed' event of a tracked window has removed its entry while
\* another live window is still tracked
C37_Witness ==
  /\ last.op = "closed"
  /\ last.window \notin Tracked(childWindows)
  /\ wins[last.window].state = "destroyed"
  /\ Closable # {}

\* C38: a bridge response that arrives after the 5,000 ms timeout has
\* failed its action changes nothing in the Main View: the banner, the
\* retry counters and the loading flag are what they were, also when the
\* late response reports success.
C38_LateResponseIgnored ==
  [][ lastCall'.op = "late"
        => /\ mainApp'.error = mainApp.error
           /\ mainApp'.retryCount = mainApp.retryCount
           /\ mainApp'.isLoading = mainApp.isLoading ]_vars

\* The response of an action that timed out has arrived with success while
\* a later action of the same key was loading: the banner of the timeout,
\* the counter and the loading flag are as before
C38_Witness ==
  /\ lastCall.op = "late"
  /\ lastCall.settled = BridgeResolved(Envelope(TRUE, Undefined))
  /\ mainApp.isLoading = lastCall.key
  /\ mainApp.retryCount[lastCall.key] = 1
  /\ lastCall.retryCount = mainApp.retryCount
  /\ lastCall.buttons[lastCall.key].disabled

\* C39 as stated: once a rendering failure is caught, hasError stays true
\* and every later render of the same mount gives the fallback, the
\* caller's if one is supplied, else the built-in one
C39_OneShotFallbackIfSupplied ==
  [][ /\ boundary'.caught > boundary.caught => boundary'.state.hasError
      /\ boundary.state.hasError /\ boundary'.mounts = boundary.mounts
         => /\ boundary'.state.hasError
            /\ boundary'.output =
                 IF boundary'.fallback # Undefined THEN boundary'.fallback
                 ELSE BuiltInPanel
      /\ boundary'.mounts > boundary.mounts => ~boundary'.state.hasError ]_vars

\* C39: the Error Boundary is one-shot per mount: once a rendering failure
\* is caught, hasError stays true and every later render gives the
\* fallback, the caller's if one is supplied and is not a falsy value (null,
\* 0, the empty string), else the built-in one; only a remount resets it.
C39_OneShotPerMount ==
  [][ /\ boundary'.caught > boundary.caught => boundary'.state.hasError
      /\ boundary.state.hasError /\ boundary'.mounts = boundary.mounts
         => /\ boundary'.state.hasError
            /\ boundary'.output =
                 IF ~Falsy(boundary'.fallback) THEN boundary'.fallback
                 ELSE BuiltInPanel
      /\ boundary'.mounts > boundary.mounts => ~boundary'.state.hasError ]_vars

\* A boundary that caught a failure has been rendered again and gives the
\* caller's fallback
C39_Witness ==
  /\ boundary.state.hasError
  /\ boundary.state.error = "E1"
  /\ boundary.rerendered
  /\ boundary.fallback = Element("custom")
  /\ boundary.output = Element("custom")

\* C40: every child window the manager constructed that is still live has
\* a registry entry, so that a later closeAllChildWindows reaches it; in
\* particular after a sweep in which a close call threw.  Stated for the
\* windows of a sweep all of whose close calls threw.
C40_LiveWindowsTracked ==
  last.op = "closeAllChildWindows" /\ last.count = 0 =>
    \A h \in last.called : wins[h].state = "live" => h \in Tracked(childWindows)

====
